---- MODULE Spec2Model ----
(***************************************************************************)
(* Authentication and session-control core of detection_project:          *)
(* backend/src/auth.rs (credential store, token codec, revocation set),    *)
(* backend/src/security.rs (login throttle, input sanitisation) and the    *)
(* handlers of backend/src/main.rs that drive them.                        *)
(*                                                                         *)
(* Strings the code inspects character by character (user names,          *)
(* passwords, roles) are sequences of one-character strings.  Messages     *)
(* and client addresses are opaque and are plain TLA+ strings.  Time is    *)
(* the wall clock in whole seconds, the resolution of the iat/exp claims.  *)
(***************************************************************************)
EXTENDS Integers, Sequences, FiniteSets, Bags, TLC

VARIABLES
    users,        \* auth.rs USERS: username -> User
    revoked,      \* auth.rs REVOKED_TOKENS, the entries that are tokens the model tracks
    fillers,      \* auth.rs REVOKED_TOKENS, the number of its other (distinct, untracked) entries
    attempts,     \* security.rs LOGIN_ATTEMPTS: ip -> (count, last_attempt)
    now,          \* the clock, in seconds
    issued,       \* the tokens login has returned to clients
    last,         \* the call made by the latest step: whom it was about, and its response
    everRevoked,  \* history: the tokens revoke_token has been called on
    deactivated,  \* history: the users deactivate_user has succeeded on
    streak,       \* history: ip -> consecutive rejected logins, each within the window of the previous call
    lastCall,     \* history: ip -> time of the latest login call (-1: none)
    ticks,        \* the number of clock advances so far
    throttleLog,  \* history kept by LoginLogged: ip -> when its throttle entry was created,
                  \*          when its count reached MAX_ATTEMPTS, the Locked answers since
    calls,        \* the login calls in flight, for the steps of one call taken apart
    threads,      \* the calls in progress, for the lock-level steps: a bag of
                  \*          (function, arguments, position, guards held)
    locks,        \* USERS, REVOKED_TOKENS, LOGIN_ATTEMPTS: the guards out on each lock
    sweep,        \* cleanup_login_attempts beside check_login_attempts: the time each
                  \*          waiting call has read, and LOGIN_ATTEMPTS as it would be unswept
    zone,         \* the time zone of the host, which chrono::Local formats in
    outcomes,     \* history: the add_user calls that have returned, with their results
    sanitized     \* the latest sanitize_input call: what it was given and what it returned

vars == <<users, revoked, fillers, attempts, now, issued, last,
          everRevoked, deactivated, streak, lastCall, ticks, throttleLog, calls,
          threads, locks, sweep, zone, outcomes, sanitized>>

(***************************************************************************)
(* Program constants                                                       *)
(***************************************************************************)
TOKEN_EXPIRY_HOURS == 24
SECONDS_PER_HOUR == 3600
MAX_ATTEMPTS == 5
LOCKOUT_DURATION == 300
CLEANUP_DURATION == 600
RETAIN_COUNT == 1000
\* jsonwebtoken's Validation::default(): exp is checked with a leeway of 60 s
LEEWAY == 60
USERNAME_MIN == 3
USERNAME_MAX == 50
LOGIN_PASSWORD_MIN == 6
NEW_PASSWORD_MIN == 8

JWT_SECRET == "your-super-secret-jwt-key-change-in-production"

(***************************************************************************)
(* Bounds of the model                                                     *)
(***************************************************************************)
MaxTicks == 2
MaxTokens == 2
MaxOverflow == 1
MaxCalls == 5
MaxThreads == 2
MaxChecks == 6

(***************************************************************************)
(* Inputs                                                                  *)
(***************************************************************************)
AdminName == <<"a","d","m","i","n">>
ViewerName == <<"v","i","e","w","e","r">>
BobName == <<"b","o","b">>
ShortName == <<"a","b">>
DirtyBobName == <<"<","b","o","b",">">>

AdminPw == <<"A","d","m","i","n","1","2","3","!">>
ViewerPw == <<"V","i","e","w","e","r","1","2","3","!">>
BobPw == <<"B","o","b","1","2","3","4","!">>
WrongPw == <<"w","r","o","n","g","p","a","s","s","w","o","r","d">>
ShortPw == <<"s","h","o","r","t">>
SevenPw == <<"S","e","v","e","n","7","!">>

RoleAdmin == <<"a","d","m","i","n">>
RoleViewer == <<"v","i","e","w","e","r">>
RoleRead == <<"r","e","a","d">>
RoleUser == <<"u","s","e","r">>

IPs == {"10.0.0.1", "10.0.0.2"}
LoginNames == {AdminName, ViewerName, BobName, ShortName}
LoginPws == {AdminPw, ViewerPw, BobPw, WrongPw, ShortPw}
TickSteps == {1, LEEWAY, LOCKOUT_DURATION, LOCKOUT_DURATION + 1,
              TOKEN_EXPIRY_HOURS * SECONDS_PER_HOUR}

(***************************************************************************)
(* Password verifier (bcrypt): the verifier keeps the password it was made *)
(* from behind a one-way tag; verify recomputes and compares.              *)
(***************************************************************************)
hash(password) == [algo |-> "bcrypt", of |-> password]

verify(password, password_hash) == password_hash = hash(password)

(***************************************************************************)
(* Token codec (jsonwebtoken, HS256): a token is its claims and the secret *)
(* it was signed with.  The encoding is deterministic: equal claims under  *)
(* the same secret give the same token string.                             *)
(***************************************************************************)
NoToken == [sub |-> <<>>, role |-> <<>>, iat |-> 0, exp |-> 0, sig |-> "none"]
GarbageToken == [sub |-> <<>>, role |-> <<>>, iat |-> 0, exp |-> 0, sig |-> "malformed"]
ForgedToken == [sub |-> AdminName, role |-> RoleAdmin, iat |-> 0,
                exp |-> TOKEN_EXPIRY_HOURS * SECONDS_PER_HOUR, sig |-> "forged-key"]
NoClaims == [sub |-> <<>>, exp |-> 0, iat |-> 0, role |-> <<>>]

encode(claims, secret) ==
    [sub |-> claims.sub, role |-> claims.role, iat |-> claims.iat,
     exp |-> claims.exp, sig |-> secret]

\* decode reading the exp claim from the iat's place
decode_exp_from_iat(token, secret, t) ==
    IF token.sig \in {"malformed", "none"} THEN [ok |-> FALSE, err |-> "InvalidToken", claims |-> NoClaims]
    ELSE IF token.sig # secret THEN [ok |-> FALSE, err |-> "InvalidSignature", claims |-> NoClaims]
    ELSE IF token.exp + LEEWAY < t THEN [ok |-> FALSE, err |-> "ExpiredSignature", claims |-> NoClaims]
    ELSE [ok |-> TRUE, err |-> "",
          claims |-> [sub |-> token.sub, exp |-> token.iat, iat |-> token.iat, role |-> token.role]]

decode(token, secret, t) ==
    IF token.sig \in {"malformed", "none"} THEN [ok |-> FALSE, err |-> "InvalidToken", claims |-> NoClaims]
    ELSE IF token.sig # secret THEN [ok |-> FALSE, err |-> "InvalidSignature", claims |-> NoClaims]
    ELSE IF token.exp + LEEWAY < t THEN [ok |-> FALSE, err |-> "ExpiredSignature", claims |-> NoClaims]
    ELSE [ok |-> TRUE, err |-> "",
          claims |-> [sub |-> token.sub, exp |-> token.exp, iat |-> token.iat, role |-> token.role]]


(***************************************************************************)
(* chrono: a DateTime<Local> is an instant with the offset from UTC that   *)
(* the host's time zone has at that instant.  timestamp() is the instant   *)
(* in seconds, which is what the claims carry; format("%Y-%m-%d %H:%M:%S") *)
(* writes the wall-clock date and time of day, without the offset.  Dates  *)
(* count days from the model's epoch.                                      *)
(***************************************************************************)
Zones == {"UTC", "Africa/Tunis", "Europe/Paris"}

\* the instant at which Europe/Paris leaves summer time: the tokens minted in
\* the first half hour of the model expire in the hour before it
DstEnd == TOKEN_EXPIRY_HOURS * SECONDS_PER_HOUR + SECONDS_PER_HOUR \div 2

UtcOffset(z, t) ==
    CASE z = "UTC" -> 0
      [] z = "Africa/Tunis" -> SECONDS_PER_HOUR
      [] z = "Europe/Paris" -> IF t < DstEnd THEN 2 * SECONDS_PER_HOUR ELSE SECONDS_PER_HOUR

Local(t, z) == [instant |-> t, offset |-> UtcOffset(z, t)]

NoDateTime == [date |-> -1, hour |-> 0, minute |-> 0, second |-> 0]

format(dt) ==
    LET wall == dt.instant + dt.offset
    IN [date |-> wall \div (24 * SECONDS_PER_HOUR),
        hour |-> (wall % (24 * SECONDS_PER_HOUR)) \div SECONDS_PER_HOUR,
        minute |-> (wall % SECONDS_PER_HOUR) \div 60,
        second |-> wall % 60]

(***************************************************************************)
(* auth.rs                                                                 *)
(***************************************************************************)
SeedUsers ==
    (AdminName :> [username |-> AdminName, password_hash |-> hash(AdminPw),
                   role |-> RoleAdmin, is_active |-> TRUE])
    @@ (ViewerName :> [username |-> ViewerName, password_hash |-> hash(ViewerPw),
                       role |-> RoleViewer, is_active |-> TRUE])

\* LoginRequest's validate(): username length 3..50, password length >= 6
LoginRequestValid(username, password) ==
    /\ Len(username) >= USERNAME_MIN
    /\ Len(username) <= USERNAME_MAX
    /\ Len(password) >= LOGIN_PASSWORD_MIN

AuthErr(e) ==
    [ok |-> FALSE, err |-> e, token |-> NoToken, claims |-> NoClaims,
     username |-> <<>>, role |-> <<>>]

\* authenticate_user without its is_active check
authenticate_user_skips_active_check(username, password, us, t) ==
    IF ~LoginRequestValid(username, password) THEN AuthErr("Données invalides")
    ELSE IF username \notin DOMAIN us THEN AuthErr("Utilisateur non trouvé")
    ELSE IF ~verify(password, us[username].password_hash) THEN AuthErr("Mot de passe incorrect")
    ELSE LET expiry == t + TOKEN_EXPIRY_HOURS * SECONDS_PER_HOUR
             claims == [sub |-> us[username].username, exp |-> expiry, iat |-> t,
                        role |-> us[username].role]
         IN [ok |-> TRUE, err |-> "", token |-> encode(claims, JWT_SECRET), claims |-> claims,
             username |-> us[username].username, role |-> us[username].role]

authenticate_user(username, password, us, t) ==
    IF ~LoginRequestValid(username, password) THEN AuthErr("Données invalides")
    ELSE IF username \notin DOMAIN us THEN AuthErr("Utilisateur non trouvé")
    ELSE IF ~us[username].is_active THEN AuthErr("Compte désactivé")
    ELSE IF ~verify(password, us[username].password_hash) THEN AuthErr("Mot de passe incorrect")
    ELSE LET expiry == t + TOKEN_EXPIRY_HOURS * SECONDS_PER_HOUR
             claims == [sub |-> us[username].username, exp |-> expiry, iat |-> t,
                        role |-> us[username].role]
         IN [ok |-> TRUE, err |-> "", token |-> encode(claims, JWT_SECRET), claims |-> claims,
             username |-> us[username].username, role |-> us[username].role]

\* the expires_at of the LoginResponse authenticate_user returns at t on a host in zone z
expires_at(t, z) == format(Local(t + TOKEN_EXPIRY_HOURS * SECONDS_PER_HOUR, z))

ValidateErr(e) == [ok |-> FALSE, err |-> e, claims |-> NoClaims]

\* validate_token without its is_active check
validate_token_no_active_check(token, rev, us, t) ==
    IF token \in rev THEN ValidateErr("Token révoqué")
    ELSE LET token_data == decode(token, JWT_SECRET, t) IN
         IF ~token_data.ok THEN ValidateErr(token_data.err)
         ELSE IF token_data.claims.sub \notin DOMAIN us THEN ValidateErr("Utilisateur non trouvé")
         ELSE [ok |-> TRUE, err |-> "", claims |-> token_data.claims]

validate_token(token, rev, us, t) ==
    IF token \in rev THEN ValidateErr("Token révoqué")
    ELSE LET token_data == decode(token, JWT_SECRET, t) IN
         IF ~token_data.ok THEN ValidateErr(token_data.err)
         ELSE IF token_data.claims.sub \notin DOMAIN us THEN ValidateErr("Utilisateur non trouvé")
         ELSE IF ~us[token_data.claims.sub].is_active THEN ValidateErr("Compte désactivé")
         ELSE [ok |-> TRUE, err |-> "", claims |-> token_data.claims]

\* revoke_token removing a token that is already in the set
revoke_token_toggle(token, rev) ==
    IF token \in rev THEN rev \ {token} ELSE rev \cup {token}

revoke_token(token, rev) == rev \cup {token}

\* check_permission without the required role in the viewer arms
check_permission_any_role(role, required_role) ==
    IF role \in {RoleAdmin, RoleViewer} THEN "Ok" ELSE "Permissions insuffisantes"

\* check_permission granting every request
check_permission_always_ok(role, required_role) == "Ok"

check_permission(role, required_role) ==
    IF role = RoleAdmin THEN "Ok"
    ELSE IF role = RoleViewer /\ required_role = RoleViewer THEN "Ok"
    ELSE IF role = RoleViewer /\ required_role = RoleRead THEN "Ok"
    ELSE "Permissions insuffisantes"

(***************************************************************************)
(* security.rs                                                             *)
(***************************************************************************)
LockedMsg == "Trop de tentatives de connexion. Réessayez dans 5 minutes."

Put(att, ip, count, t) ==
    [k \in (DOMAIN att) \cup {ip} |->
        IF k = ip THEN [count |-> count, last_attempt |-> t] ELSE att[k]]

\* check_login_attempts locking at count > MAX_ATTEMPTS
check_login_attempts_off_by_one(ip, att, t) ==
    IF ip \in DOMAIN att
    THEN IF t - att[ip].last_attempt > LOCKOUT_DURATION
         THEN [ok |-> TRUE, err |-> "", attempts |-> Put(att, ip, 1, t)]
         ELSE IF att[ip].count > MAX_ATTEMPTS
         THEN [ok |-> FALSE, err |-> LockedMsg, attempts |-> att]
         ELSE [ok |-> TRUE, err |-> "", attempts |-> Put(att, ip, att[ip].count + 1, t)]
    ELSE [ok |-> TRUE, err |-> "", attempts |-> Put(att, ip, 1, t)]

\* check_login_attempts re-inserting the count without adding one
check_login_attempts_lost_increment(ip, att, t) ==
    IF ip \in DOMAIN att
    THEN IF t - att[ip].last_attempt > LOCKOUT_DURATION
         THEN [ok |-> TRUE, err |-> "", attempts |-> Put(att, ip, 1, t)]
         ELSE IF att[ip].count >= MAX_ATTEMPTS
         THEN [ok |-> FALSE, err |-> LockedMsg, attempts |-> att]
         ELSE [ok |-> TRUE, err |-> "", attempts |-> Put(att, ip, att[ip].count, t)]
    ELSE [ok |-> TRUE, err |-> "", attempts |-> Put(att, ip, 1, t)]

\* check_login_attempts inserting a count of one again instead of adding one
check_login_attempts_restarts(ip, att, t) ==
    IF ip \in DOMAIN att
    THEN IF t - att[ip].last_attempt > LOCKOUT_DURATION
         THEN [ok |-> TRUE, err |-> "", attempts |-> Put(att, ip, 1, t)]
         ELSE IF att[ip].count >= MAX_ATTEMPTS
         THEN [ok |-> FALSE, err |-> LockedMsg, attempts |-> att]
         ELSE [ok |-> TRUE, err |-> "", attempts |-> Put(att, ip, 1, t)]
    ELSE [ok |-> TRUE, err |-> "", attempts |-> Put(att, ip, 1, t)]

\* check_login_attempts taking a Locked call for the latest attempt
check_login_attempts_extends_lockout(ip, att, t) ==
    IF ip \in DOMAIN att
    THEN IF t - att[ip].last_attempt > LOCKOUT_DURATION
         THEN [ok |-> TRUE, err |-> "", attempts |-> Put(att, ip, 1, t)]
         ELSE IF att[ip].count >= MAX_ATTEMPTS
         THEN [ok |-> FALSE, err |-> LockedMsg, attempts |-> Put(att, ip, att[ip].count, t)]
         ELSE [ok |-> TRUE, err |-> "", attempts |-> Put(att, ip, att[ip].count + 1, t)]
    ELSE [ok |-> TRUE, err |-> "", attempts |-> Put(att, ip, 1, t)]

\* check_login_attempts keeping the time of the entry's first attempt
check_login_attempts_keeps_first(ip, att, t) ==
    IF ip \in DOMAIN att
    THEN IF t - att[ip].last_attempt > LOCKOUT_DURATION
         THEN [ok |-> TRUE, err |-> "", attempts |-> Put(att, ip, 1, t)]
         ELSE IF att[ip].count >= MAX_ATTEMPTS
         THEN [ok |-> FALSE, err |-> LockedMsg, attempts |-> att]
         ELSE [ok |-> TRUE, err |-> "",
               attempts |-> Put(att, ip, att[ip].count + 1, att[ip].last_attempt)]
    ELSE [ok |-> TRUE, err |-> "", attempts |-> Put(att, ip, 1, t)]

\* check_login_attempts counting the calls it answers Locked
check_login_attempts_counts_locked(ip, att, t) ==
    IF ip \in DOMAIN att
    THEN IF t - att[ip].last_attempt > LOCKOUT_DURATION
         THEN [ok |-> TRUE, err |-> "", attempts |-> Put(att, ip, 1, t)]
         ELSE IF att[ip].count >= MAX_ATTEMPTS
         THEN [ok |-> FALSE, err |-> LockedMsg,
               attempts |-> Put(att, ip, att[ip].count + 1, att[ip].last_attempt)]
         ELSE [ok |-> TRUE, err |-> "", attempts |-> Put(att, ip, att[ip].count + 1, t)]
    ELSE [ok |-> TRUE, err |-> "", attempts |-> Put(att, ip, 1, t)]

check_login_attempts(ip, att, t) ==
    IF ip \in DOMAIN att
    THEN IF t - att[ip].last_attempt > LOCKOUT_DURATION
         THEN [ok |-> TRUE, err |-> "", attempts |-> Put(att, ip, 1, t)]
         ELSE IF att[ip].count >= MAX_ATTEMPTS
         THEN [ok |-> FALSE, err |-> LockedMsg, attempts |-> att]
         ELSE [ok |-> TRUE, err |-> "", attempts |-> Put(att, ip, att[ip].count + 1, t)]
    ELSE [ok |-> TRUE, err |-> "", attempts |-> Put(att, ip, 1, t)]

\* reset_login_attempts leaving the entry in place
reset_login_attempts_noop(ip, att) == att

reset_login_attempts(ip, att) == [k \in (DOMAIN att) \ {ip} |-> att[k]]

\* cleanup_login_attempts with the test of retain turned round
cleanup_login_attempts_keeps_expired(att, t) ==
    [k \in {i \in DOMAIN att : t - att[i].last_attempt > CLEANUP_DURATION} |-> att[k]]

cleanup_login_attempts(att, t) ==
    [k \in {i \in DOMAIN att : t - att[i].last_attempt <= CLEANUP_DURATION} |-> att[k]]

IsAlphanumeric(c) ==
    c \in {"a","b","c","d","e","f","g","h","i","j","k","l","m",
           "n","o","p","q","r","s","t","u","v","w","x","y","z",
           "A","B","C","D","E","F","G","H","I","J","K","L","M",
           "N","O","P","Q","R","S","T","U","V","W","X","Y","Z",
           "0","1","2","3","4","5","6","7","8","9"}

SanitizeKeeps(c) == IsAlphanumeric(c) \/ c \in {"_", "-", ".", "/", ":", " "}

RECURSIVE TrimStart(_)
TrimStart(s) == IF s # <<>> /\ Head(s) = " " THEN TrimStart(Tail(s)) ELSE s

RECURSIVE TrimEnd(_)
TrimEnd(s) ==
    IF s # <<>> /\ s[Len(s)] = " " THEN TrimEnd(SubSeq(s, 1, Len(s) - 1)) ELSE s

sanitize_input(input) == TrimEnd(TrimStart(SelectSeq(input, SanitizeKeeps)))


(***************************************************************************)
(* auth.rs, the credential-store mutators                                  *)
(***************************************************************************)
\* add_user without its contains_key check
add_user_overwrites(username, password, role, us) ==
    IF Len(username) < USERNAME_MIN \/ Len(username) > USERNAME_MAX
    THEN [ok |-> FALSE, err |-> "Le nom d'utilisateur doit contenir entre 3 et 50 caractères", users |-> us]
    ELSE IF Len(password) < NEW_PASSWORD_MIN
    THEN [ok |-> FALSE, err |-> "Le mot de passe doit contenir au moins 8 caractères", users |-> us]
    ELSE IF role \notin {RoleAdmin, RoleViewer}
    THEN [ok |-> FALSE, err |-> "Rôle invalide", users |-> us]
    ELSE [ok |-> TRUE, err |-> "",
          users |-> (username :> [username |-> username, password_hash |-> hash(password),
                                  role |-> role, is_active |-> TRUE]) @@ us]

add_user(username, password, role, us) ==
    IF Len(username) < USERNAME_MIN \/ Len(username) > USERNAME_MAX
    THEN [ok |-> FALSE, err |-> "Le nom d'utilisateur doit contenir entre 3 et 50 caractères", users |-> us]
    ELSE IF Len(password) < NEW_PASSWORD_MIN
    THEN [ok |-> FALSE, err |-> "Le mot de passe doit contenir au moins 8 caractères", users |-> us]
    ELSE IF role \notin {RoleAdmin, RoleViewer}
    THEN [ok |-> FALSE, err |-> "Rôle invalide", users |-> us]
    ELSE IF username \in DOMAIN us
    THEN [ok |-> FALSE, err |-> "L'utilisateur existe déjà", users |-> us]
    ELSE [ok |-> TRUE, err |-> "",
          users |-> (username :> [username |-> username, password_hash |-> hash(password),
                                  role |-> role, is_active |-> TRUE]) @@ us]

\* deactivate_user removing the entry instead of clearing its flag
deactivate_user_removes(username, us) ==
    IF username \notin DOMAIN us
    THEN [ok |-> FALSE, err |-> "Utilisateur non trouvé", users |-> us]
    ELSE [ok |-> TRUE, err |-> "", users |-> [k \in (DOMAIN us) \ {username} |-> us[k]]]

deactivate_user(username, us) ==
    IF username \notin DOMAIN us
    THEN [ok |-> FALSE, err |-> "Utilisateur non trouvé", users |-> us]
    ELSE [ok |-> TRUE, err |-> "", users |-> [us EXCEPT ![username].is_active = FALSE]]

\* ChangePasswordRequest's validate(): username length 3..50, new password length >= 8
ChangePasswordRequestValid(username, new_password) ==
    /\ Len(username) >= USERNAME_MIN
    /\ Len(username) <= USERNAME_MAX
    /\ Len(new_password) >= NEW_PASSWORD_MIN

\* change_password closing the account's sessions by clearing is_active
change_password_deactivates(username, current_password, new_password, us) ==
    IF ~ChangePasswordRequestValid(username, new_password)
    THEN [ok |-> FALSE, err |-> "Données invalides", users |-> us]
    ELSE IF username \notin DOMAIN us
    THEN [ok |-> FALSE, err |-> "Utilisateur non trouvé", users |-> us]
    ELSE IF ~verify(current_password, us[username].password_hash)
    THEN [ok |-> FALSE, err |-> "Mot de passe actuel incorrect", users |-> us]
    ELSE [ok |-> TRUE, err |-> "",
          users |-> [us EXCEPT ![username].password_hash = hash(new_password),
                               ![username].is_active = FALSE]]

change_password(username, current_password, new_password, us) ==
    IF ~ChangePasswordRequestValid(username, new_password)
    THEN [ok |-> FALSE, err |-> "Données invalides", users |-> us]
    ELSE IF username \notin DOMAIN us
    THEN [ok |-> FALSE, err |-> "Utilisateur non trouvé", users |-> us]
    ELSE IF ~verify(current_password, us[username].password_hash)
    THEN [ok |-> FALSE, err |-> "Mot de passe actuel incorrect", users |-> us]
    ELSE [ok |-> TRUE, err |-> "",
          users |-> [us EXCEPT ![username].password_hash = hash(new_password)]]

\* The sets cleanup_revoked_tokens may leave: the whole set when it holds at most
\* RETAIN_COUNT entries, else any RETAIN_COUNT of them (HashSet iteration order).
\* cleanup_revoked_tokens with take(999)
cleanup_revoked_tokens_takes_fewer(rev, n) ==
    IF Cardinality(rev) + n > RETAIN_COUNT
    THEN {[revoked |-> keep, fillers |-> (RETAIN_COUNT - 1) - Cardinality(keep)] :
            keep \in {k \in SUBSET rev : /\ (RETAIN_COUNT - 1) - Cardinality(k) >= 0
                                         /\ (RETAIN_COUNT - 1) - Cardinality(k) <= n}}
    ELSE {[revoked |-> rev, fillers |-> n]}

cleanup_revoked_tokens(rev, n) ==
    IF Cardinality(rev) + n > RETAIN_COUNT
    THEN {[revoked |-> keep, fillers |-> RETAIN_COUNT - Cardinality(keep)] :
            keep \in {k \in SUBSET rev : /\ RETAIN_COUNT - Cardinality(k) >= 0
                                         /\ RETAIN_COUNT - Cardinality(k) <= n}}
    ELSE {[revoked |-> rev, fillers |-> n]}

(***************************************************************************)
(* main.rs, the handlers.  A response is what the client receives: the     *)
(* ApiResponse's success flag and message, and of a LoginResponse the      *)
(* token and the user it names (with the minted claims' timestamps).  The  *)
(* handlers are driven directly; auth_middleware is applied where a        *)
(* handler needs the claims it inserts.                                    *)
(***************************************************************************)
Response(op, success, prefix, detail, token, claims) ==
    [op |-> op, success |-> success, message |-> [prefix |-> prefix, detail |-> detail],
     token |-> token, claims |-> claims]

\* What `last` holds: the response, with the user name or role the call was
\* about, the password it carried, the token it presented to auth_middleware,
\* whether the token it named was already in the revocation set when the
\* call was made, and the expires_at of a LoginResponse.
Call(subject, response) ==
    [subject |-> subject, password |-> <<>>, presented |-> NoToken, again |-> FALSE,
     expires_at |-> NoDateTime, op |-> response.op, success |-> response.success,
     message |-> response.message, token |-> response.token, claims |-> response.claims]

Idle == Call(<<>>, Response("none", TRUE, "", "", NoToken, NoClaims))

NoHeader == [scheme |-> "none", token |-> NoToken]
BasicHeader == [scheme |-> "Basic", token |-> NoToken]
Bearer(token) == [scheme |-> "Bearer", token |-> token]

login(ip, username, password, att, us, t) ==
    LET chk == check_login_attempts(ip, att, t)
        auth == authenticate_user(username, password, us, t)
    IN IF ~chk.ok
       THEN [attempts |-> chk.attempts,
             response |-> Response("login", FALSE, "", chk.err, NoToken, NoClaims)]
       ELSE IF auth.ok
       THEN [attempts |-> reset_login_attempts(ip, chk.attempts),
             response |-> Response("login", TRUE, "", "Connexion réussie", auth.token,
                                   [sub |-> auth.username, exp |-> auth.claims.exp,
                                    iat |-> auth.claims.iat, role |-> auth.role])]
       ELSE [attempts |-> chk.attempts,
             response |-> Response("login", FALSE, "Erreur d'authentification: ", auth.err,
                                   NoToken, NoClaims)]

logout(header, rev) ==
    [revoked |-> IF header.scheme = "Bearer" THEN revoke_token(header.token, rev) ELSE rev,
     response |-> Response("logout", TRUE, "", "Déconnexion réussie", header.token, NoClaims)]

\* auth_middleware letting a revoked token through
auth_middleware_ignores_revocation(header, rev, us, t) ==
    IF header.scheme = "Bearer"
    THEN LET v == validate_token(header.token, {}, us, t) IN
         IF v.ok THEN [ok |-> TRUE, claims |-> v.claims] ELSE [ok |-> FALSE, claims |-> NoClaims]
    ELSE [ok |-> FALSE, claims |-> NoClaims]

\* auth_middleware: the claims of a request that goes on to its handler
auth_middleware(header, rev, us, t) ==
    IF header.scheme = "Bearer"
    THEN LET v == validate_token(header.token, rev, us, t) IN
         IF v.ok THEN [ok |-> TRUE, claims |-> v.claims] ELSE [ok |-> FALSE, claims |-> NoClaims]
    ELSE [ok |-> FALSE, claims |-> NoClaims]

Unauthorized(op) == Response(op, FALSE, "", "401 Unauthorized", NoToken, NoClaims)

\* What `last` holds of a request auth_middleware answered itself: the 401 and
\* the token the request presented.
Refused(op, header) == [Call(<<>>, Unauthorized(op)) EXCEPT !.presented = header.token]

add_user_handler(claims, payload, us) ==
    IF check_permission(claims.role, RoleAdmin) # "Ok"
    THEN [users |-> us,
          response |-> Response("add_user", FALSE, "Accès refusé: ",
                                check_permission(claims.role, RoleAdmin), NoToken, claims)]
    ELSE IF {"username", "password", "role"} \subseteq DOMAIN payload
    THEN LET r == add_user(sanitize_input(payload.username), payload.password,
                           sanitize_input(payload.role), us)
         IN IF r.ok
            THEN [users |-> r.users,
                  response |-> Response("add_user", TRUE, "", "Utilisateur ajouté avec succès",
                                        NoToken, claims)]
            ELSE [users |-> r.users,
                  response |-> Response("add_user", FALSE, "Erreur: ", r.err, NoToken, claims)]
    ELSE [users |-> us,
          response |-> Response("add_user", FALSE, "", "Données manquantes", NoToken, claims)]

deactivate_user_handler(claims, username, us) ==
    IF check_permission(claims.role, RoleAdmin) # "Ok"
    THEN [users |-> us, ok |-> FALSE,
          response |-> Response("deactivate_user", FALSE, "Accès refusé: ",
                                check_permission(claims.role, RoleAdmin), NoToken, claims)]
    ELSE LET r == deactivate_user(sanitize_input(username), us)
         IN IF r.ok
            THEN [users |-> r.users, ok |-> TRUE,
                  response |-> Response("deactivate_user", TRUE, "", "Utilisateur désactivé",
                                        NoToken, claims)]
            ELSE [users |-> r.users, ok |-> FALSE,
                  response |-> Response("deactivate_user", FALSE, "Erreur: ", r.err,
                                        NoToken, claims)]

change_password_handler(username, current_password, new_password, us) ==
    LET r == change_password(username, current_password, new_password, us)
    IN IF r.ok
       THEN [users |-> r.users,
             response |-> Response("change_password", TRUE, "",
                                   "Mot de passe modifié avec succès", NoToken, NoClaims)]
       ELSE [users |-> r.users,
             response |-> Response("change_password", FALSE, "Erreur: ", r.err,
                                   NoToken, NoClaims)]


(***************************************************************************)
(* The state machine                                                       *)
(***************************************************************************)
\* throttleLog of an address: window_start is the time its throttle entry was
\* inserted with count 1 and last_counted the time of the latest call that
\* was not answered Locked (-1: no entry), locked_since the time its count
\* reached MAX_ATTEMPTS (-1: it is below), refused the Locked answers given
\* since it last did (counted up to two).
NoThrottleLog ==
    [window_start |-> -1, last_counted |-> -1, locked_since |-> -1, refused |-> 0]

\* calls: the calls begun, the times stamped by those waiting for the
\* LOGIN_ATTEMPTS mutex, those allowed and now in authenticate_user, those
\* answered Locked and those answered with an authentication error.
NoCalls == [begun |-> 0, waiting |-> EmptyBag, checked |-> 0, locked |-> 0, failed |-> 0]

\* the three locks, each with the write (or mutex) guards and the read guards out on it
LockNames == {"USERS", "REVOKED_TOKENS", "LOGIN_ATTEMPTS"}
Unlocked == [l \in LockNames |-> [writers |-> 0, readers |-> 0]]

\* sweep: the times read by the check_login_attempts calls that wait for the
\* mutex and the number of calls begun; the time read by a waiting
\* cleanup_login_attempts (-1: none) and the latest time a sweep that has run
\* had read (-1: none); LOGIN_ATTEMPTS as the same calls leave it when no sweep
\* runs, with the time, address and result there of the latest check
NoSweep ==
    [waiting |-> EmptyBag, begun |-> 0, stamp |-> -1, swept |-> -1,
     unswept |-> [k \in {} |-> [count |-> 0, last_attempt |-> 0]],
     checked_at |-> -1, checked_ip |-> "", unswept_ok |-> TRUE]

NoSanitized == [called |-> FALSE, input |-> <<>>, output |-> <<>>]

\* the state after construction, on a host in time zone z
InitIn(z) ==
    /\ users = SeedUsers
    /\ revoked = {}
    /\ fillers = 0
    /\ attempts = [k \in {} |-> [count |-> 0, last_attempt |-> 0]]
    /\ now = 0
    /\ issued = {}
    /\ last = Idle
    /\ everRevoked = {}
    /\ deactivated = {}
    /\ streak = [ip \in IPs |-> 0]
    /\ lastCall = [ip \in IPs |-> -1]
    /\ ticks = 0
    /\ throttleLog = [ip \in IPs |-> NoThrottleLog]
    /\ calls = NoCalls
    /\ threads = EmptyBag
    /\ locks = Unlocked
    /\ sweep = NoSweep
    /\ zone = z
    /\ outcomes = EmptyBag
    /\ sanitized = NoSanitized

Init == InitIn("UTC")

Min(a, b) == IF a < b THEN a ELSE b

CountOf(ip, att) == IF ip \in DOMAIN att THEN att[ip].count ELSE 0

\* throttleLog of ip after a login call at the current time that found the
\* map att and returned r
LogLogin(log, ip, att, r) ==
    LET refusal == r.response.message.detail = LockedMsg
        count == CountOf(ip, r.attempts)
    IN [window_start |-> IF ip \notin DOMAIN r.attempts THEN -1
                         ELSE IF ~refusal /\ count = 1 THEN now
                         ELSE log.window_start,
        last_counted |-> IF ip \notin DOMAIN r.attempts THEN -1
                         ELSE IF ~refusal THEN now
                         ELSE log.last_counted,
        locked_since |-> IF count < MAX_ATTEMPTS THEN -1
                         ELSE IF CountOf(ip, att) < MAX_ATTEMPTS THEN now
                         ELSE log.locked_since,
        refused |-> IF refusal THEN Min(log.refused + 1, 2)
                    ELSE IF count >= MAX_ATTEMPTS THEN 0
                    ELSE log.refused]

\* POST /api/login from client address ip: the handler's effect
LoginCall(ip, username, password) ==
    LET r == login(ip, username, password, attempts, users, now)
        minted == IF r.response.success THEN {r.response.token} ELSE {}
    IN /\ Cardinality(issued \cup minted) <= MaxTokens
       /\ attempts' = r.attempts
       /\ issued' = issued \cup minted
       /\ last' = [Call(username, r.response)
                   EXCEPT !.password = password,
                          !.expires_at = IF r.response.success THEN expires_at(now, zone)
                                         ELSE NoDateTime]
       /\ streak' = [streak EXCEPT ![ip] =
                        IF r.response.success THEN 0
                        ELSE IF @ > 0 /\ now - lastCall[ip] <= LOCKOUT_DURATION
                        THEN Min(@ + 1, MAX_ATTEMPTS + 1)
                        ELSE 1]
       /\ lastCall' = [lastCall EXCEPT ![ip] = now]
       /\ UNCHANGED <<users, revoked, fillers, now, everRevoked, deactivated, ticks, calls,
                   threads, locks, sweep, zone, outcomes, sanitized>>

\* POST /api/login from client address ip
Login(ip, username, password) ==
    /\ LoginCall(ip, username, password)
    /\ UNCHANGED throttleLog

\* POST /api/login from client address ip, with the throttle entry's history kept
LoginLogged(ip, username, password) ==
    /\ LoginCall(ip, username, password)
    /\ throttleLog' = [throttleLog EXCEPT ![ip] =
                          LogLogin(@, ip, attempts,
                                   login(ip, username, password, attempts, users, now))]

\* POST /api/logout with the given Authorization header
Logout(header) ==
    LET r == logout(header, revoked)
    IN /\ revoked' = r.revoked
       /\ everRevoked' = IF header.scheme = "Bearer"
                         THEN everRevoked \cup {header.token} ELSE everRevoked
       /\ last' = [Call(<<>>, r.response) EXCEPT !.again = (header.token \in revoked)]
       /\ UNCHANGED <<users, fillers, attempts, now, issued, deactivated, streak,
                      lastCall, ticks, throttleLog, calls,
                   threads, locks, sweep, zone, outcomes, sanitized>>

\* POST /api/logout with a bearer string never seen before (not one of the tracked tokens)
LogoutFresh(cap) ==
    /\ fillers < cap
    /\ fillers' = fillers + 1
    /\ last' = Call(<<>>, Response("logout", TRUE, "", "Déconnexion réussie", NoToken, NoClaims))
    /\ UNCHANGED <<users, revoked, attempts, now, issued, everRevoked, deactivated,
                   streak, lastCall, ticks, throttleLog, calls,
                   threads, locks, sweep, zone, outcomes, sanitized>>

\* validate_token(token), as auth_middleware calls it on every protected request
Authenticate(token) ==
    LET v == validate_token(token, revoked, users, now)
    IN /\ last' = Call(<<>>, Response("validate_token", v.ok, "", v.err, token, v.claims))
       /\ UNCHANGED <<users, revoked, fillers, attempts, now, issued, everRevoked,
                      deactivated, streak, lastCall, ticks, throttleLog, calls,
                   threads, locks, sweep, zone, outcomes, sanitized>>

\* check_permission(claims, required_role) on the claims of a validated token
Authorize(token, required_role) ==
    LET v == validate_token(token, revoked, users, now)
        res == check_permission(v.claims.role, required_role)
    IN /\ v.ok
       /\ last' = Call(required_role,
                       Response("check_permission", res = "Ok", "", res, NoToken, v.claims))
       /\ UNCHANGED <<users, revoked, fillers, attempts, now, issued, everRevoked,
                      deactivated, streak, lastCall, ticks, throttleLog, calls,
                   threads, locks, sweep, zone, outcomes, sanitized>>

\* POST /api/admin/users
AddUser(header, payload) ==
    LET mw == auth_middleware(header, revoked, users, now)
        r == add_user_handler(mw.claims, payload, users)
    IN /\ users' = IF mw.ok THEN r.users ELSE users
       /\ last' = IF mw.ok
                  THEN [Call(IF "username" \in DOMAIN payload
                             THEN sanitize_input(payload.username) ELSE <<>>, r.response)
                        EXCEPT !.presented = header.token]
                  ELSE Refused("add_user", header)
       /\ UNCHANGED <<revoked, fillers, attempts, now, issued, everRevoked, deactivated,
                      streak, lastCall, ticks, throttleLog, calls,
                   threads, locks, sweep, zone, outcomes, sanitized>>

\* POST /api/admin/users/:username/deactivate
DeactivateUser(header, username) ==
    LET mw == auth_middleware(header, revoked, users, now)
        r == deactivate_user_handler(mw.claims, username, users)
    IN /\ users' = IF mw.ok THEN r.users ELSE users
       /\ deactivated' = IF mw.ok /\ r.ok
                         THEN deactivated \cup {sanitize_input(username)} ELSE deactivated
       /\ last' = IF mw.ok
                  THEN [Call(sanitize_input(username), r.response)
                        EXCEPT !.presented = header.token]
                  ELSE Refused("deactivate_user", header)
       /\ UNCHANGED <<revoked, fillers, attempts, now, issued, everRevoked, streak,
                      lastCall, ticks, throttleLog, calls,
                   threads, locks, sweep, zone, outcomes, sanitized>>

\* POST /api/change-password
ChangePassword(header, username, current_password, new_password) ==
    LET mw == auth_middleware(header, revoked, users, now)
        r == change_password_handler(username, current_password, new_password, users)
    IN /\ users' = IF mw.ok THEN r.users ELSE users
       /\ last' = IF mw.ok
                  THEN [Call(username, r.response) EXCEPT !.presented = header.token]
                  ELSE Refused("change_password", header)
       /\ UNCHANGED <<revoked, fillers, attempts, now, issued, everRevoked, deactivated,
                      streak, lastCall, ticks, throttleLog, calls,
                   threads, locks, sweep, zone, outcomes, sanitized>>

\* POST /api/login taken apart, for calls that run at the same time.  A call
\* reads the clock (security.rs, let now = Instant::now()), then takes the
\* LOGIN_ATTEMPTS mutex and holds it to the end of check_login_attempts, then
\* goes on to authenticate_user and answers.
BeginLogin ==
    /\ calls.begun < MaxCalls
    /\ calls' = [calls EXCEPT !.begun = @ + 1, !.waiting = @ (+) SetToBag({now})]
    /\ last' = Idle
    /\ UNCHANGED <<users, revoked, fillers, attempts, now, issued, everRevoked, deactivated,
                   streak, lastCall, ticks, throttleLog,
                   threads, locks, sweep, zone, outcomes, sanitized>>

\* check_login_attempts(ip) of a call that read the clock at t
CheckLoginAttempts(ip, t) ==
    LET r == check_login_attempts(ip, attempts, t)
    IN /\ BagIn(t, calls.waiting)
       /\ attempts' = r.attempts
       /\ calls' = [calls EXCEPT !.waiting = @ (-) SetToBag({t}),
                                 !.checked = IF r.ok THEN @ + 1 ELSE @,
                                 !.locked = IF r.ok THEN @ ELSE @ + 1]
       /\ last' = IF r.ok THEN Idle
                  ELSE Call(<<>>, Response("login", FALSE, "", r.err, NoToken, NoClaims))
       /\ UNCHANGED <<users, revoked, fillers, now, issued, everRevoked, deactivated,
                      streak, lastCall, ticks, throttleLog,
                   threads, locks, sweep, zone, outcomes, sanitized>>

\* the rest of login for a call check_login_attempts allowed
FinishLogin(ip, username, password) ==
    LET auth == authenticate_user(username, password, users, now)
    IN /\ calls.checked > 0
       /\ attempts' = IF auth.ok THEN reset_login_attempts(ip, attempts) ELSE attempts
       /\ issued' = IF auth.ok THEN issued \cup {auth.token} ELSE issued
       /\ calls' = [calls EXCEPT !.checked = @ - 1,
                                 !.failed = IF auth.ok THEN @ ELSE @ + 1]
       /\ last' = [Call(username,
                        IF auth.ok
                        THEN Response("login", TRUE, "", "Connexion réussie", auth.token,
                                      [sub |-> auth.username, exp |-> auth.claims.exp,
                                       iat |-> auth.claims.iat, role |-> auth.role])
                        ELSE Response("login", FALSE, "Erreur d'authentification: ",
                                      auth.err, NoToken, NoClaims))
                   EXCEPT !.password = password,
                          !.expires_at = IF auth.ok THEN expires_at(now, zone)
                                         ELSE NoDateTime]
       /\ UNCHANGED <<users, revoked, fillers, now, everRevoked, deactivated,
                      streak, lastCall, ticks, throttleLog,
                   threads, locks, sweep, zone, outcomes, sanitized>>

\* main's route table: Router::layer wraps the routes added before it, so
\* auth_middleware stands in front of every route of RoutesBeforeAuthLayer
\* and of none of the services nested after it.
RoutesBeforeAuthLayer ==
    <<"/", "/api/login", "/api/health",
      "/api/detection", "/api/detections", "/api/detections/:id", "/api/stats",
      "/api/export", "/api/logout", "/api/change-password", "/api/history",
      "/api/admin/users", "/api/admin/users/:username/deactivate">>

ServicesAfterAuthLayer == <<"/static", "/assets">>

BehindAuthMiddleware(route) ==
    \E i \in DOMAIN RoutesBeforeAuthLayer : RoutesBeforeAuthLayer[i] = route

\* POST /api/login as the router serves it
PostLogin(ip, header, username, password) ==
    IF BehindAuthMiddleware("/api/login") /\ ~auth_middleware(header, revoked, users, now).ok
    THEN /\ last' = [Refused("login", header) EXCEPT !.subject = username,
                                                     !.password = password]
         /\ UNCHANGED <<users, revoked, fillers, attempts, now, issued, everRevoked,
                        deactivated, streak, lastCall, ticks, throttleLog, calls,
                   threads, locks, sweep, zone, outcomes, sanitized>>
    ELSE Login(ip, username, password)

\* GET /api/health as the router serves it
GetHealth(header) ==
    /\ last' = IF BehindAuthMiddleware("/api/health")
                  /\ ~auth_middleware(header, revoked, users, now).ok
               THEN Refused("health_check", header)
               ELSE [Call(<<>>, Response("health_check", TRUE, "", "Service opérationnel",
                                         NoToken, NoClaims))
                     EXCEPT !.presented = header.token]
    /\ UNCHANGED <<users, revoked, fillers, attempts, now, issued, everRevoked,
                   deactivated, streak, lastCall, ticks, throttleLog, calls,
                   threads, locks, sweep, zone, outcomes, sanitized>>

\* GET / as the router serves it
GetIndex(header) ==
    /\ last' = IF BehindAuthMiddleware("/")
                  /\ ~auth_middleware(header, revoked, users, now).ok
               THEN Refused("serve_index", header)
               ELSE [Call(<<>>, Response("serve_index", TRUE, "", "index.html",
                                         NoToken, NoClaims))
                     EXCEPT !.presented = header.token]
    /\ UNCHANGED <<users, revoked, fillers, attempts, now, issued, everRevoked,
                   deactivated, streak, lastCall, ticks, throttleLog, calls,
                   threads, locks, sweep, zone, outcomes, sanitized>>

\* the hourly maintenance task of main
CleanupRevokedTokens ==
    /\ \E kept \in cleanup_revoked_tokens(revoked, fillers) :
          /\ revoked' = kept.revoked
          /\ fillers' = kept.fillers
    /\ last' = Idle
    /\ UNCHANGED <<users, attempts, now, issued, everRevoked, deactivated, streak,
                   lastCall, ticks, throttleLog, calls,
                   threads, locks, sweep, zone, outcomes, sanitized>>

CleanupLoginAttempts ==
    /\ attempts' = cleanup_login_attempts(attempts, now)
    /\ throttleLog' = [ip \in IPs |->
                          IF ip \in DOMAIN attempts' THEN throttleLog[ip]
                          ELSE [throttleLog[ip] EXCEPT !.window_start = -1,
                                                       !.last_counted = -1]]
    /\ last' = Idle
    /\ UNCHANGED <<users, revoked, fillers, now, issued, everRevoked, deactivated,
                   streak, lastCall, ticks, calls,
                   threads, locks, sweep, zone, outcomes, sanitized>>

\* the clock advances by d seconds
Tick(d) ==
    /\ ticks < MaxTicks
    /\ now' = now + d
    /\ ticks' = ticks + 1
    /\ last' = Idle
    /\ UNCHANGED <<users, revoked, fillers, attempts, issued, everRevoked, deactivated,
                   streak, lastCall, throttleLog, calls,
                   threads, locks, sweep, zone, outcomes, sanitized>>

(***************************************************************************)
(* The functions taken apart at their locks.  A function is the sequence   *)
(* of its statements that take a lock or do work under one; a guard bound  *)
(* by let lives to the end of the function that took it.  The requests are *)
(* well formed: validate() precedes the first lock and returns at once     *)
(* otherwise.                                                              *)
(***************************************************************************)
Acquire(lock, mode) == [do |-> "acquire", lock |-> lock, mode |-> mode, drop |-> FALSE]
Do(work) == [do |-> work, lock |-> "", mode |-> "", drop |-> FALSE]
\* the last statement of a function the handler calls and then goes on
DoAndReturn(work) == [do |-> work, lock |-> "", mode |-> "", drop |-> TRUE]

\* Program with add_user looking the name up under a read guard and taking
\* the write guard afterwards
Program_add_user_checks_under_read(op) ==
    CASE op = "validate_token" ->
            <<Acquire("REVOKED_TOKENS", "read"), Do("contains"), Do("decode"),
              Acquire("USERS", "read"), Do("get")>>
      [] op = "login" ->
            <<Acquire("LOGIN_ATTEMPTS", "write"), DoAndReturn("check"),
              Acquire("USERS", "read"), Do("get"), Do("verify"), DoAndReturn("encode"),
              Acquire("LOGIN_ATTEMPTS", "write"), DoAndReturn("remove")>>
      [] op = "revoke_token" ->
            <<Acquire("REVOKED_TOKENS", "write"), Do("insert")>>
      [] op = "change_password" ->
            <<Acquire("USERS", "write"), Do("get"), Do("verify"), Do("hash"), Do("assign")>>
      [] op = "add_user" ->
            <<Acquire("USERS", "read"), DoAndReturn("contains"),
              Acquire("USERS", "write"), Do("hash"), Do("insert")>>
      [] op = "deactivate_user" ->
            <<Acquire("USERS", "write"), Do("assign")>>
      [] op = "cleanup_revoked_tokens" ->
            <<Acquire("REVOKED_TOKENS", "write"), Do("take")>>
      [] op = "cleanup_login_attempts" ->
            <<Acquire("LOGIN_ATTEMPTS", "write"), Do("retain")>>

\* Program with change_password revoking under the USERS guard it already holds
Program_revokes_under_users(op) ==
    CASE op = "validate_token" ->
            <<Acquire("REVOKED_TOKENS", "read"), Do("contains"), Do("decode"),
              Acquire("USERS", "read"), Do("get")>>
      [] op = "login" ->
            <<Acquire("LOGIN_ATTEMPTS", "write"), DoAndReturn("check"),
              Acquire("USERS", "read"), Do("get"), Do("verify"), DoAndReturn("encode"),
              Acquire("LOGIN_ATTEMPTS", "write"), DoAndReturn("remove")>>
      [] op = "revoke_token" ->
            <<Acquire("REVOKED_TOKENS", "write"), Do("insert")>>
      [] op = "change_password" ->
            <<Acquire("USERS", "write"), Do("get"), Do("verify"), Do("hash"), Do("assign"),
              Acquire("REVOKED_TOKENS", "write"), Do("retire")>>
      [] op = "add_user" ->
            <<Acquire("USERS", "write"), Do("contains"), Do("hash"), Do("insert")>>
      [] op = "deactivate_user" ->
            <<Acquire("USERS", "write"), Do("assign")>>
      [] op = "cleanup_revoked_tokens" ->
            <<Acquire("REVOKED_TOKENS", "write"), Do("take")>>
      [] op = "cleanup_login_attempts" ->
            <<Acquire("LOGIN_ATTEMPTS", "write"), Do("retain")>>

Program(op) ==
    CASE op = "validate_token" ->
            <<Acquire("REVOKED_TOKENS", "read"), Do("contains"), Do("decode"),
              Acquire("USERS", "read"), Do("get")>>
      [] op = "login" ->
            <<Acquire("LOGIN_ATTEMPTS", "write"), DoAndReturn("check"),
              Acquire("USERS", "read"), Do("get"), Do("verify"), DoAndReturn("encode"),
              Acquire("LOGIN_ATTEMPTS", "write"), DoAndReturn("remove")>>
      [] op = "revoke_token" ->
            <<Acquire("REVOKED_TOKENS", "write"), Do("insert")>>
      [] op = "change_password" ->
            <<Acquire("USERS", "write"), Do("get"), Do("verify"), Do("hash"), Do("assign")>>
      [] op = "add_user" ->
            <<Acquire("USERS", "write"), Do("contains"), Do("hash"), Do("insert")>>
      [] op = "deactivate_user" ->
            <<Acquire("USERS", "write"), Do("assign")>>
      [] op = "cleanup_revoked_tokens" ->
            <<Acquire("REVOKED_TOKENS", "write"), Do("take")>>
      [] op = "cleanup_login_attempts" ->
            <<Acquire("LOGIN_ATTEMPTS", "write"), Do("retain")>>

NoArg == [ip |-> "", username |-> <<>>, password |-> <<>>, new_password |-> <<>>,
          role |-> <<>>, token |-> NoToken]

\* the statement returns from the call early (a ? or a return Err)
Returns(op, do, arg) ==
    CASE op = "validate_token" /\ do = "contains" -> arg.token \in revoked
      [] op = "validate_token" /\ do = "decode" -> ~decode(arg.token, JWT_SECRET, now).ok
      [] op = "login" /\ do = "check" ->
            \/ ~check_login_attempts(arg.ip, attempts, now).ok
            \/ ~LoginRequestValid(arg.username, arg.password)
      [] op = "login" /\ do = "get" ->
            \/ arg.username \notin DOMAIN users
            \/ ~users[arg.username].is_active
      [] op = "login" /\ do = "verify" ->
            ~verify(arg.password, users[arg.username].password_hash)
      [] op = "change_password" /\ do = "get" -> arg.username \notin DOMAIN users
      [] op = "change_password" /\ do = "verify" ->
            ~verify(arg.password, users[arg.username].password_hash)
      [] op = "add_user" /\ do = "contains" -> arg.username \in DOMAIN users
      [] op = "deactivate_user" /\ do = "assign" -> arg.username \notin DOMAIN users
      [] OTHER -> FALSE

Available(lk, lock, mode) ==
    /\ lk[lock].writers = 0
    /\ mode = "write" => lk[lock].readers = 0

Grant(lk, lock, mode) ==
    IF mode = "read" THEN [lk EXCEPT ![lock].readers = @ + 1]
    ELSE [lk EXCEPT ![lock].writers = @ + 1]

\* the guards in held go out of scope
Release(lk, held) ==
    [l \in LockNames |->
        [writers |-> lk[l].writers - Cardinality({g \in held : g.lock = l /\ g.mode = "write"}),
         readers |-> lk[l].readers - Cardinality({g \in held : g.lock = l /\ g.mode = "read"})]]

Swap(bag, old, new) == (bag (-) SetToBag({old})) (+) SetToBag({new})

\* User { username, password_hash: hash(password), role, is_active: true }
User(username, password, role) ==
    [username |-> username, password_hash |-> hash(password), role |-> role,
     is_active |-> TRUE]

\* HashMap::insert: the value takes the place of one already under the key
insert(map, key, value) == (key :> value) @@ [k \in DOMAIN map \ {key} |-> map[k]]

\* what the call of th returns when the statement at its position ends it,
\* and the names the calls in progress beside it are about
Result(th) ==
    LET r == IF th.op = "add_user"
             THEN add_user(th.arg.username, th.arg.password, th.arg.role, users)
             ELSE [ok |-> TRUE, err |-> ""]
    IN [op |-> th.op, arg |-> th.arg,
        beside |-> {t.arg.username : t \in BagToSet(threads (-) SetToBag({th}))},
        ok |-> ~Returns(th.op, Program(th.op)[th.pc].do, th.arg),
        err |-> IF Returns(th.op, Program(th.op)[th.pc].do, th.arg) THEN r.err ELSE ""]

\* a request arrives and a worker begins op(arg)
StartCall(op, arg) ==
    /\ BagCardinality(threads) < MaxThreads
    /\ threads' = threads (+) SetToBag({[op |-> op, arg |-> arg, pc |-> 1, held |-> {}]})
    /\ last' = Idle
    /\ UNCHANGED <<users, revoked, fillers, attempts, now, issued, everRevoked, deactivated,
                   streak, lastCall, ticks, throttleLog, calls, locks, sweep, zone, outcomes, sanitized>>

\* .read(), .write() or .lock(): the call goes on when the lock lets it in
AcquireLock(th) ==
    LET s == Program(th.op)[th.pc]
    IN /\ BagIn(th, threads)
       /\ s.do = "acquire"
       /\ Available(locks, s.lock, s.mode)
       /\ locks' = Grant(locks, s.lock, s.mode)
       /\ threads' = Swap(threads, th,
                          [th EXCEPT !.pc = @ + 1,
                                     !.held = @ \cup {[lock |-> s.lock, mode |-> s.mode]}])
       /\ last' = Idle
       /\ UNCHANGED <<users, revoked, fillers, attempts, now, issued, everRevoked,
                      deactivated, streak, lastCall, ticks, throttleLog, calls, sweep, zone, outcomes, sanitized>>

\* the statement at th's position, with the guards th holds
Work(th) ==
    LET s == Program(th.op)[th.pc]
        op == th.op
        do == s.do
        arg == th.arg
        ends == Returns(op, do, arg) \/ th.pc = Len(Program(op))
        drops == ends \/ s.drop
    IN /\ BagIn(th, threads)
       /\ do # "acquire"
       /\ locks' = IF drops THEN Release(locks, th.held) ELSE locks
       /\ threads' = IF ends THEN threads (-) SetToBag({th})
                     ELSE Swap(threads, th,
                               [th EXCEPT !.pc = @ + 1,
                                          !.held = IF drops THEN {} ELSE @])
       /\ users' =
            CASE op = "change_password" /\ do = "assign" ->
                    change_password(arg.username, arg.password, arg.new_password, users).users
              [] op = "add_user" /\ do = "insert" ->
                    insert(users, arg.username, User(arg.username, arg.password, arg.role))
              [] op = "deactivate_user" /\ do = "assign" ->
                    deactivate_user(arg.username, users).users
              [] OTHER -> users
       /\ deactivated' = IF op = "deactivate_user" /\ arg.username \in DOMAIN users
                         THEN deactivated \cup {arg.username} ELSE deactivated
       /\ attempts' =
            CASE op = "login" /\ do = "check" ->
                    check_login_attempts(arg.ip, attempts, now).attempts
              [] op = "login" /\ do = "remove" -> reset_login_attempts(arg.ip, attempts)
              [] op = "cleanup_login_attempts" /\ do = "retain" ->
                    cleanup_login_attempts(attempts, now)
              [] OTHER -> attempts
       /\ issued' = IF op = "login" /\ do = "encode"
                    THEN issued \cup {authenticate_user(arg.username, arg.password,
                                                        users, now).token}
                    ELSE issued
       /\ IF op = "cleanup_revoked_tokens"
          THEN \E kept \in cleanup_revoked_tokens(revoked, fillers) :
                  /\ revoked' = kept.revoked
                  /\ fillers' = kept.fillers
          ELSE /\ revoked' = IF op = "revoke_token" THEN revoke_token(arg.token, revoked)
                             ELSE revoked
               /\ fillers' = fillers
       /\ everRevoked' = IF op = "revoke_token" THEN everRevoked \cup {arg.token}
                         ELSE everRevoked
       /\ last' = Idle
       /\ UNCHANGED <<now, streak, lastCall, ticks, throttleLog, calls, sweep, zone, sanitized>>

(***************************************************************************)
(* security.rs taken apart at its clock reads: check_login_attempts and    *)
(* cleanup_login_attempts read Instant::now() and then wait for the mutex. *)
(* sweep.unswept follows the same calls with the sweeps left out.          *)
(***************************************************************************)
Max(a, b) == IF a > b THEN a ELSE b

\* check_login_attempts: let now = Instant::now()
BeginCheck ==
    /\ sweep.begun < MaxChecks
    /\ BagCardinality(sweep.waiting) < MaxThreads
    /\ sweep' = [sweep EXCEPT !.begun = @ + 1, !.waiting = @ (+) SetToBag({now})]
    /\ last' = Idle
    /\ UNCHANGED <<users, revoked, fillers, attempts, now, issued, everRevoked, deactivated,
                   streak, lastCall, ticks, throttleLog, calls, threads, locks, zone, outcomes, sanitized>>

\* check_login_attempts(ip) from the lock on, of a call that read the clock at t
CheckStamped(ip, t) ==
    LET r == check_login_attempts(ip, attempts, t)
        u == check_login_attempts(ip, sweep.unswept, t)
    IN /\ BagIn(t, sweep.waiting)
       /\ attempts' = r.attempts
       /\ sweep' = [sweep EXCEPT !.waiting = @ (-) SetToBag({t}),
                                 !.unswept = u.attempts,
                                 !.checked_at = t,
                                 !.checked_ip = ip,
                                 !.unswept_ok = u.ok]
       /\ last' = Call(<<>>, Response("check_login_attempts", r.ok, "", r.err,
                                      NoToken, NoClaims))
       /\ UNCHANGED <<users, revoked, fillers, now, issued, everRevoked, deactivated,
                      streak, lastCall, ticks, throttleLog, calls, threads, locks, zone, outcomes, sanitized>>

\* reset_login_attempts(ip)
ResetLoginAttempts(ip) ==
    /\ attempts' = reset_login_attempts(ip, attempts)
    /\ sweep' = [sweep EXCEPT !.unswept = reset_login_attempts(ip, @)]
    /\ last' = Idle
    /\ UNCHANGED <<users, revoked, fillers, now, issued, everRevoked, deactivated,
                   streak, lastCall, ticks, throttleLog, calls, threads, locks, zone, outcomes, sanitized>>

\* cleanup_login_attempts: let now = Instant::now()
BeginSweep ==
    /\ sweep.stamp = -1
    /\ sweep' = [sweep EXCEPT !.stamp = now]
    /\ last' = Idle
    /\ UNCHANGED <<users, revoked, fillers, attempts, now, issued, everRevoked, deactivated,
                   streak, lastCall, ticks, throttleLog, calls, threads, locks, zone, outcomes, sanitized>>

\* the clock advances by d seconds between calls.  A call reaches the mutex
\* within seconds of reading the clock (the mutex is held for one map
\* operation at a time), so minutes pass only while no call waits for it.
TickBetweenCalls(d) ==
    /\ sweep.waiting = EmptyBag
    /\ sweep.stamp = -1
    /\ Tick(d)

\* cleanup_login_attempts from the lock on
RunSweep ==
    /\ sweep.stamp # -1
    /\ attempts' = cleanup_login_attempts(attempts, sweep.stamp)
    /\ sweep' = [sweep EXCEPT !.stamp = -1, !.swept = Max(@, sweep.stamp)]
    /\ last' = Idle
    /\ UNCHANGED <<users, revoked, fillers, now, issued, everRevoked, deactivated,
                   streak, lastCall, ticks, throttleLog, calls, threads, locks, zone, outcomes, sanitized>>

Tokens == issued \cup {GarbageToken, ForgedToken}
Headers == {NoHeader, BasicHeader} \cup {Bearer(t) : t \in Tokens}
RequiredRoles == {RoleAdmin, RoleViewer, RoleRead, RoleUser}
TokenLifetime == TOKEN_EXPIRY_HOURS * SECONDS_PER_HOUR

(***************************************************************************)
(* Spec: sessions.  Login, logout and token validation for the seed users  *)
(* from one client address; the clock steps by a second or by a token      *)
(* lifetime.                                                               *)
(***************************************************************************)
SessionIP == "10.0.0.1"
SessionLogins == {<<AdminName, AdminPw>>, <<ViewerName, ViewerPw>>}
LogoutHeaders ==
    {NoHeader, BasicHeader, Bearer(GarbageToken)} \cup {Bearer(t) : t \in issued}

Next ==
    \/ \E c \in SessionLogins : Login(SessionIP, c[1], c[2])
    \/ \E h \in LogoutHeaders : Logout(h)
    \/ \E t \in Tokens : Authenticate(t)
    \/ CleanupRevokedTokens
    \/ \E d \in {1, TokenLifetime} : Tick(d)

Spec == Init /\ [][Next]_vars

(***************************************************************************)
(* SpecThrottle: the login throttle.  Logins from one client address with  *)
(* good, wrong and malformed credentials and from another with a wrong     *)
(* password; the clock steps to the edge of the lockout window or just     *)
(* past it.                                                                *)
(***************************************************************************)
ThrottleLogins ==
    {<<AdminName, AdminPw>>, <<AdminName, WrongPw>>, <<AdminName, ShortPw>>}
OtherIP == "10.0.0.2"

NextThrottle ==
    \/ \E c \in ThrottleLogins : Login(SessionIP, c[1], c[2])
    \/ Login(OtherIP, AdminName, WrongPw)
    \/ CleanupLoginAttempts
    \/ \E d \in {LOCKOUT_DURATION, LOCKOUT_DURATION + 1} : Tick(d)

SpecThrottle == Init /\ [][NextThrottle]_vars

(***************************************************************************)
(* SpecAdmin: the credential store.  Provisioning, deactivation and        *)
(* password change by authenticated callers, with logins and validations.  *)
(***************************************************************************)
AdminLogins == {<<AdminName, AdminPw>>, <<ViewerName, ViewerPw>>, <<BobName, BobPw>>}
AddUserPayloads ==
    {[username |-> DirtyBobName, password |-> BobPw, role |-> RoleViewer],
     [username |-> DirtyBobName, password |-> SevenPw, role |-> RoleViewer],
     [username |-> DirtyBobName, password |-> BobPw, role |-> RoleUser],
     [username |-> ShortName, password |-> BobPw, role |-> RoleViewer],
     [username |-> ViewerName, password |-> BobPw, role |-> RoleAdmin],
     [username |-> BobName, password |-> BobPw]}

\* the creations of SpecAdmin: one that succeeds, one of an existing user
AdminPayloads ==
    {[username |-> DirtyBobName, password |-> BobPw, role |-> RoleViewer],
     [username |-> ViewerName, password |-> BobPw, role |-> RoleAdmin]}

AdminHeaders == {NoHeader} \cup {Bearer(t) : t \in issued}

NextAdmin ==
    \/ \E c \in AdminLogins : Login(SessionIP, c[1], c[2])
    \/ \E t \in Tokens : Authenticate(t)
    \/ \E t \in Tokens, r \in RequiredRoles : Authorize(t, r)
    \/ \E h \in AdminHeaders, p \in AdminPayloads : AddUser(h, p)
    \/ \E h \in AdminHeaders, u \in {ViewerName, DirtyBobName} : DeactivateUser(h, u)
    \/ \E h \in AdminHeaders : ChangePassword(h, ViewerName, ViewerPw, BobPw)
    \/ Tick(TokenLifetime + LEEWAY + 1)

SpecAdmin == Init /\ [][NextAdmin]_vars

(***************************************************************************)
(* SpecProvision: provisioning and deactivation requests by the admin and  *)
(* by the viewer, with the logins of the seed users and of the user being  *)
(* provisioned, the clock standing still.                                  *)
(***************************************************************************)
NextProvision ==
    \/ \E c \in AdminLogins : Login(SessionIP, c[1], c[2])
    \/ \E h \in AdminHeaders, p \in AddUserPayloads : AddUser(h, p)
    \/ \E h \in AdminHeaders, u \in {ViewerName, DirtyBobName, ShortName} :
          DeactivateUser(h, u)

SpecProvision == Init /\ [][NextProvision]_vars

(***************************************************************************)
(* SpecGateway: protected requests with every kind of Authorization        *)
(* header, while tokens are minted, revoked and expire and the viewer is   *)
(* deactivated.                                                            *)
(***************************************************************************)
BobPayload == [username |-> BobName, password |-> BobPw, role |-> RoleViewer]

NextGateway ==
    \/ \E c \in SessionLogins : Login(SessionIP, c[1], c[2])
    \/ \E t \in issued : Logout(Bearer(t))
    \/ \E h \in Headers : AddUser(h, BobPayload)
    \/ \E h \in Headers : DeactivateUser(h, ViewerName)
    \/ Tick(TokenLifetime + LEEWAY + 1)

SpecGateway == Init /\ [][NextGateway]_vars

(***************************************************************************)
(* SpecConcurrent: up to MaxCalls logins with a wrong password from one    *)
(* client address running at the same time, their steps interleaved, while *)
(* the clock moves on by seconds.                                          *)
(***************************************************************************)
StampTimes == 0 .. MaxTicks

NextConcurrent ==
    \/ BeginLogin
    \/ \E t \in StampTimes : CheckLoginAttempts(SessionIP, t)
    \/ FinishLogin(SessionIP, AdminName, WrongPw)
    \/ Tick(1)

SpecConcurrent == Init /\ [][NextConcurrent]_vars

(***************************************************************************)
(* SpecLockout: one client address failing and succeeding at login while   *)
(* the clock steps to the edge of the lockout window or just past it, with *)
(* the history of its throttle entry kept.                                 *)
(***************************************************************************)
LockoutLogins == {<<AdminName, AdminPw>>, <<AdminName, WrongPw>>}

NextLockout ==
    \/ \E c \in LockoutLogins : LoginLogged(SessionIP, c[1], c[2])
    \/ CleanupLoginAttempts
    \/ \E d \in {LOCKOUT_DURATION, LOCKOUT_DURATION + 1} : Tick(d)

SpecLockout == Init /\ [][NextLockout]_vars

(***************************************************************************)
(* SpecHttp: the routes main's comments call public, as the router serves  *)
(* them to clients from two addresses with every kind of Authorization     *)
(* header.                                                                 *)
(***************************************************************************)
NextHttp ==
    \/ \E ip \in IPs, h \in Headers, u \in LoginNames, p \in LoginPws :
          PostLogin(ip, h, u, p)
    \/ \E h \in Headers : GetHealth(h)
    \/ \E h \in Headers : GetIndex(h)
    \/ Tick(1)

SpecHttp == Init /\ [][NextHttp]_vars

(***************************************************************************)
(* SpecCompaction: the revocation set filling up to its retention cap and  *)
(* being compacted.                                                        *)
(***************************************************************************)
NextCompaction ==
    \/ Login(SessionIP, AdminName, AdminPw)
    \/ \E t \in issued : Logout(Bearer(t))
    \/ LogoutFresh(RETAIN_COUNT + MaxOverflow)
    \/ \E t \in issued : Authenticate(t)
    \/ CleanupRevokedTokens

SpecCompaction == Init /\ [][NextCompaction]_vars

(***************************************************************************)
(* SpecLocks: the workers of the server run the functions of auth.rs and   *)
(* security.rs side by side, each one statement at a time.                 *)
(***************************************************************************)
WorkerCalls ==
    {<<"login", [NoArg EXCEPT !.ip = SessionIP, !.username = AdminName,
                              !.password = AdminPw]>>,
     <<"login", [NoArg EXCEPT !.ip = SessionIP, !.username = AdminName,
                              !.password = WrongPw]>>,
     <<"change_password", [NoArg EXCEPT !.username = ViewerName, !.password = ViewerPw,
                                        !.new_password = BobPw]>>,
     <<"add_user", [NoArg EXCEPT !.username = BobName, !.password = BobPw,
                                 !.role = RoleViewer]>>,
     <<"deactivate_user", [NoArg EXCEPT !.username = ViewerName]>>,
     <<"cleanup_revoked_tokens", NoArg>>,
     <<"cleanup_login_attempts", NoArg>>}
        \cup {<<"validate_token", [NoArg EXCEPT !.token = t]>> : t \in issued}
        \cup {<<"revoke_token", [NoArg EXCEPT !.token = t]>> : t \in issued}

NextLocks ==
    \/ \E c \in WorkerCalls : StartCall(c[1], c[2])
    \/ \E th \in BagToSet(threads) : AcquireLock(th)
    \/ \E th \in BagToSet(threads) : Work(th) /\ UNCHANGED outcomes

SpecLocks == Init /\ [][NextLocks]_vars



(***************************************************************************)
(* SpecRegister: add_user calls for names new and taken run side by side,  *)
(* one statement at a time, and what each returns is kept.                 *)
(***************************************************************************)
MaxAdds == 3

CarolName == <<"c","a","r","o","l">>

RegisterCalls ==
    {[NoArg EXCEPT !.username = BobName, !.password = BobPw, !.role = RoleViewer],
     [NoArg EXCEPT !.username = BobName, !.password = AdminPw, !.role = RoleAdmin],
     [NoArg EXCEPT !.username = CarolName, !.password = BobPw, !.role = RoleViewer],
     [NoArg EXCEPT !.username = ViewerName, !.password = BobPw, !.role = RoleViewer]}

\* POST /api/users reaches add_user
StartAddUser(arg) ==
    /\ BagCardinality(threads) + BagCardinality(outcomes) < MaxAdds
    /\ StartCall("add_user", arg)

\* a statement of a call; a call that ends hands its result to the handler
WorkAndReturn(th) ==
    /\ Work(th)
    /\ outcomes' = IF BagCardinality(threads') < BagCardinality(threads)
                   THEN outcomes (+) SetToBag({Result(th)})
                   ELSE outcomes

NextRegister ==
    \/ \E a \in RegisterCalls : StartAddUser(a)
    \/ \E th \in BagToSet(threads) : AcquireLock(th)
    \/ \E th \in BagToSet(threads) : WorkAndReturn(th)

SpecRegister == Init /\ [][NextRegister]_vars


(***************************************************************************)
(* SpecSanitize: sanitize_input over short strings of letters, digits,     *)
(* address punctuation, markup and blanks, and over the strings of its     *)
(* test.                                                                   *)
(***************************************************************************)
MaxInput == 3

SanitizeAlphabet == {"a", "1", "@", ".", "<", ">", " "}

ScriptInput == <<"t","e","s","t","<","s","c","r","i","p","t",">">>
AddressInput == <<"u","s","e","r","@","d","o","m","a","i","n",".","c","o","m">>
SpacedInput == <<" "," ","s","p","a","c","e","d"," "," ">>

TestInputs == {ScriptInput, AddressInput, SpacedInput}

SanitizeInputs ==
    TestInputs \cup UNION {[1..n -> SanitizeAlphabet] : n \in 0..MaxInput}

\* security::sanitize_input(input)
SanitizeInput(input) ==
    /\ sanitized' = [called |-> TRUE, input |-> input, output |-> sanitize_input(input)]
    /\ last' = Idle
    /\ UNCHANGED <<users, revoked, fillers, attempts, now, issued, everRevoked, deactivated,
                   streak, lastCall, ticks, throttleLog, calls, threads, locks, sweep,
                   zone, outcomes>>

NextSanitize == \E input \in SanitizeInputs : SanitizeInput(input)

SpecSanitize == Init /\ [][NextSanitize]_vars

(***************************************************************************)
(* SpecStore: the life of the credential store.  The admin creates users,  *)
(* deactivates them and passwords are changed, while the users log in and  *)
(* present their tokens; the clock stands still.                           *)
(***************************************************************************)
StoreLogins ==
    {<<AdminName, AdminPw>>, <<ViewerName, ViewerPw>>, <<ViewerName, BobPw>>,
     <<BobName, BobPw>>}

NextStore ==
    \/ \E c \in StoreLogins : Login(SessionIP, c[1], c[2])
    \/ \E t \in issued : Authenticate(t)
    \/ \E h \in AdminHeaders, p \in AdminPayloads : AddUser(h, p)
    \/ \E h \in AdminHeaders, u \in {ViewerName, DirtyBobName} : DeactivateUser(h, u)
    \/ \E h \in AdminHeaders, c \in {ViewerPw, WrongPw} :
          ChangePassword(h, ViewerName, c, BobPw)

SpecStore == Init /\ [][NextStore]_vars

(***************************************************************************)
(* SpecSweep: checks and resets of the throttle for two addresses, with    *)
(* the expiry sweep running in between; the clock steps by a second, and   *)
(* between calls past the sweep's retention.                               *)
(***************************************************************************)
NextSweep ==
    \/ BeginCheck
    \/ \E ip \in IPs, t \in BagToSet(sweep.waiting) : CheckStamped(ip, t)
    \/ ResetLoginAttempts(SessionIP)
    \/ BeginSweep
    \/ RunSweep
    \/ Tick(1)
    \/ TickBetweenCalls(CLEANUP_DURATION + 1)

SpecSweep == Init /\ [][NextSweep]_vars

(***************************************************************************)
(* SpecClock: logins on hosts in different time zones, over the day before *)
(* one of the zones leaves summer time.                                    *)
(***************************************************************************)
NextClock ==
    \/ \E c \in LockoutLogins : Login(SessionIP, c[1], c[2])
    \/ Login(SessionIP, ViewerName, ViewerPw)
    \/ \E t \in issued : Authenticate(t)
    \/ \E d \in {1, SECONDS_PER_HOUR \div 2, SECONDS_PER_HOUR} : Tick(d)

SpecClock == (\E z \in Zones : InitIn(z)) /\ [][NextClock]_vars

(***************************************************************************)
(* Properties                                                              *)
(***************************************************************************)
Valid(token) == validate_token(token, revoked, users, now).ok

\* The failure counter of a client address: an entry older than the lockout
\* window counts as absent.
FailureCount(ip) ==
    IF ip \in DOMAIN attempts /\ now - attempts[ip].last_attempt <= LOCKOUT_DURATION
    THEN attempts[ip].count ELSE 0

OthersUntouched(ip) ==
    \A k \in IPs \ {ip} :
        /\ (k \in DOMAIN attempts') = (k \in DOMAIN attempts)
        /\ k \in DOMAIN attempts => attempts'[k] = attempts[k]

InvalidCredentials == {"Utilisateur non trouvé", "Compte désactivé", "Mot de passe incorrect"}

\* C1: once revoke_token has been called on a token, validate_token of that
\* token fails for as long as the token's expiry has not passed, whatever
\* happened in between (logins, other revocations, cleanup_revoked_tokens).
C1_RevokedStaysRevoked ==
    \A t \in everRevoked : t.exp >= now => ~Valid(t)

\* C2: a successful login returns a token that validate_token accepts, with
\* the claims' subject and role those of the user record.
C2_LoginTokenValidates ==
    (last.op = "login" /\ last.success) =>
        LET v == validate_token(last.token, revoked, users, now)
        IN /\ v.ok
           /\ v.claims.sub = users[last.subject].username
           /\ v.claims.role = users[last.subject].role

\* C3: after MAX_ATTEMPTS consecutive rejected logins from one client address,
\* each within the lockout window of the one before, the next login from that
\* address inside the window is answered Locked, whatever credentials it
\* carries, and mints no token.
C3_LockedAfterMaxAttempts ==
    [][\A ip \in IPs, u \in LoginNames, p \in LoginPws :
         (/\ Login(ip, u, p)
          /\ streak[ip] = MAX_ATTEMPTS
          /\ now - lastCall[ip] <= LOCKOUT_DURATION)
         => /\ ~last'.success
            /\ last'.message.detail = LockedMsg
            /\ last'.token = NoToken
            /\ issued' = issued]_vars

C3_Witness ==
    /\ last.op = "login"
    /\ last.message.detail = LockedMsg
    /\ last.subject = AdminName
    /\ last.password = AdminPw
    /\ users[AdminName].is_active
    /\ \E ip \in IPs : streak[ip] = MAX_ATTEMPTS + 1 /\ lastCall[ip] = now
    /\ \A ip \in IPs : lastCall[ip] # now => lastCall[ip] = -1

\* C4 as claimed: a login with an incorrect password from an address that is
\* not locked out is rejected as InvalidCredentials and raises that address's
\* failure counter by exactly one, leaving the other addresses' entries alone.
C4_WrongPasswordCounts ==
    [][\A ip \in IPs, u \in LoginNames, p \in LoginPws :
         (/\ Login(ip, u, p)
          /\ u \in DOMAIN users
          /\ ~verify(p, users[u].password_hash)
          /\ FailureCount(ip) < MAX_ATTEMPTS)
         => /\ ~last'.success
            /\ last'.message.detail \in InvalidCredentials
            /\ FailureCount(ip)' = FailureCount(ip) + 1
            /\ OthersUntouched(ip)]_vars

\* C4 amended: the same, for a login whose payload passes LoginRequest's
\* validation (username of 3 to 50 characters, password of at least 6).
C4_WellFormedWrongPasswordCounts ==
    [][\A ip \in IPs, u \in LoginNames, p \in LoginPws :
         (/\ Login(ip, u, p)
          /\ LoginRequestValid(u, p)
          /\ u \in DOMAIN users
          /\ ~verify(p, users[u].password_hash)
          /\ FailureCount(ip) < MAX_ATTEMPTS)
         => /\ ~last'.success
            /\ last'.message.detail \in InvalidCredentials
            /\ FailureCount(ip)' = FailureCount(ip) + 1
            /\ OthersUntouched(ip)]_vars

C4_Witness ==
    /\ last.op = "login"
    /\ last.password = WrongPw
    /\ last.message.detail = "Mot de passe incorrect"
    /\ \E ip \in IPs : /\ lastCall[ip] = now
                       /\ FailureCount(ip) = 3
                       /\ \A k \in IPs \ {ip} : lastCall[k] = -1

\* C5: a successful login removes the client address's throttle entry, and the
\* first rejected login after a successful one leaves the counter at exactly
\* one, with the next check allowed.
C5_SuccessResetsCounter ==
    [][\A ip \in IPs, u \in LoginNames, p \in LoginPws :
         Login(ip, u, p)
         => /\ last'.success => (ip \notin DOMAIN attempts' /\ FailureCount(ip)' = 0)
            /\ (~last'.success /\ streak[ip] = 0 /\ lastCall[ip] >= 0)
               => /\ last'.message.detail # LockedMsg
                  /\ ip \in DOMAIN attempts'
                  /\ attempts'[ip].count = 1
                  /\ check_login_attempts(ip, attempts', now').ok]_vars

C5_Witness ==
    /\ last.op = "login"
    /\ ~last.success
    /\ issued # {}
    /\ \E ip \in IPs : /\ lastCall[ip] = now
                       /\ streak[ip] = 1
                       /\ attempts[ip].count = 1
                       /\ \A k \in IPs \ {ip} : lastCall[k] = -1
    /\ ticks = 0

\* C6: once deactivate_user(u) has succeeded, validate_token fails on every
\* token minted for u.
C6_DeactivationInvalidatesTokens ==
    \A t \in issued : t.sub \in deactivated => ~Valid(t)

C6_Witness ==
    /\ last.op = "validate_token"
    /\ ~last.success
    /\ last.message.detail = "Compte désactivé"
    /\ last.token \in issued
    /\ last.token \notin revoked
    /\ last.token.exp >= now
    /\ last.token.sub \in deactivated

\* C7: validate_token fails on every token whose exp is earlier than the
\* current time, revoked or not.
C7_ExpiredTokenFails ==
    \A t \in issued : t.exp < now => ~Valid(t)

\* C8: check_permission succeeds for admin claims whatever role is required,
\* fails for viewer claims when admin is required, and succeeds for viewer
\* claims when viewer is required.
C8_PermissionRule ==
    last.op = "check_permission" =>
        /\ last.claims.role = RoleAdmin => last.success
        /\ (last.claims.role = RoleViewer /\ last.subject = RoleAdmin) => ~last.success
        /\ (last.claims.role = RoleViewer /\ last.subject = RoleViewer) => last.success

C8_Witness ==
    /\ last.op = "check_permission"
    /\ last.claims.role = RoleViewer
    /\ last.subject = RoleAdmin
    /\ ~last.success

\* C9: two well-formed logins from an address that is not locked out, each
\* failing because the user is unknown, inactive, or the password is wrong,
\* receive the same response.
FailureCause(u, p) ==
    IF u \notin DOMAIN users THEN "unknown"
    ELSE IF ~users[u].is_active THEN "inactive"
    ELSE IF ~verify(p, users[u].password_hash) THEN "wrong password"
    ELSE "none"

C9_UniformRejection ==
    \A ip \in IPs, u1 \in LoginNames, u2 \in LoginNames, p1 \in LoginPws, p2 \in LoginPws :
        (/\ FailureCount(ip) < MAX_ATTEMPTS
         /\ LoginRequestValid(u1, p1) /\ FailureCause(u1, p1) # "none"
         /\ LoginRequestValid(u2, p2) /\ FailureCause(u2, p2) # "none")
        => login(ip, u1, p1, attempts, users, now).response
           = login(ip, u2, p2, attempts, users, now).response

C12_FailuresAreUnauthorized ==
    [][(/\ last'.op \in {"add_user", "deactivate_user"}
        /\ ~Valid(last'.presented))
         => /\ ~last'.success
            /\ last'.message = Unauthorized(last'.op).message
            /\ last'.claims = NoClaims
            /\ users' = users
            /\ deactivated' = deactivated]_vars

C12_Witness ==
    /\ last.op = "add_user"
    /\ last.message.detail = "401 Unauthorized"
    /\ last.presented \in revoked
    /\ last.presented.role = RoleAdmin
    /\ last.presented.exp >= now
    /\ users[AdminName].is_active
    /\ BobName \notin DOMAIN users

\* C13: add_user with a user name the credential store already holds, active
\* or deactivated, is rejected and leaves that record as it was; and every
\* rejected creation (user name too short or too long, password shorter than
\* 8, unrecognised role) leaves the store unchanged.
C13_RejectedCreationChangesNothing ==
    [][last'.op = "add_user"
         => /\ last'.subject \in DOMAIN users => (~last'.success /\ users' = users)
            /\ ~last'.success => users' = users]_vars

C13_Witness ==
    /\ last.op = "add_user"
    /\ last.message.detail = "L'utilisateur existe déjà"
    /\ last.subject = ViewerName
    /\ last.claims.role = RoleAdmin
    /\ users[ViewerName] = [username |-> ViewerName, password_hash |-> hash(ViewerPw),
                            role |-> RoleViewer, is_active |-> FALSE]

\* C14: a request to add or deactivate a user changes the credential store
\* only when it carries the claims of a token validate_token accepts and
\* check_permission(claims, "admin") passes; a request with viewer claims
\* changes neither the set of users nor any active flag.
C14_OnlyAdminsProvision ==
    [][last'.op \in {"add_user", "deactivate_user"}
         => /\ users' # users
               => /\ \E t \in issued :
                        /\ Valid(t)
                        /\ validate_token(t, revoked, users, now).claims = last'.claims
                  /\ check_permission(last'.claims.role, RoleAdmin) = "Ok"
                  /\ last'.claims.role = RoleAdmin
            /\ last'.claims.role = RoleViewer
               => /\ DOMAIN users' = DOMAIN users
                  /\ \A u \in DOMAIN users : users'[u].is_active = users[u].is_active
                  /\ ~last'.success]_vars

C14_Witness ==
    /\ last.op = "add_user"
    /\ last.claims.role = RoleViewer
    /\ last.claims.sub = ViewerName
    /\ last.subject = BobName
    /\ last.message.detail = "Permissions insuffisantes"
    /\ BobName \notin DOMAIN users

\* C15: when at most MAX_ATTEMPTS failed logins from one client address run
\* at the same time, starting from no entry and inside the window, no
\* increment is lost: the counter equals the number of calls that have passed
\* check_login_attempts, none is answered Locked, and once all have completed
\* the counter equals the number of calls, in every interleaving.
C15_NoLostIncrement ==
    calls.begun <= MAX_ATTEMPTS =>
        /\ CountOf(SessionIP, attempts) = calls.checked + calls.failed
        /\ calls.locked = 0
        /\ (calls.waiting = EmptyBag /\ calls.checked = 0)
           => CountOf(SessionIP, attempts) = calls.begun

C15_Witness ==
    /\ calls.begun = MAX_ATTEMPTS
    /\ calls.waiting = EmptyBag
    /\ calls.checked = 0
    /\ calls.failed = MAX_ATTEMPTS
    /\ attempts[SessionIP].count = MAX_ATTEMPTS
    /\ attempts[SessionIP].last_attempt < now

\* C16: once the count of a client address has reached MAX_ATTEMPTS, a login
\* made more than LOCKOUT_DURATION after that moment is not answered Locked
\* (and succeeds with the right password), however many logins were answered
\* Locked in between and with no reset or cleanup needed.
C16_LockoutEndsByItself ==
    [][(/\ last'.op = "login"
        /\ throttleLog[SessionIP].locked_since >= 0
        /\ now - throttleLog[SessionIP].locked_since > LOCKOUT_DURATION)
       => /\ last'.message.detail # LockedMsg
          /\ last'.password = AdminPw => last'.success]_vars

C16_Witness ==
    /\ last.op = "login"
    /\ last.message.detail = "Mot de passe incorrect"
    /\ throttleLog[SessionIP].refused = 2
    /\ throttleLog[SessionIP].window_start = now
    /\ streak[SessionIP] = MAX_ATTEMPTS + 1
    /\ attempts[SessionIP].count = 1
    /\ issued = {}

\* C17 as claimed: a rejected login arriving more than LOCKOUT_DURATION after
\* the throttle entry of its address was created starts a fresh count of one,
\* whatever happened in between.
C17_WindowFromCreation ==
    [][(/\ last'.op = "login"
        /\ ~last'.success
        /\ throttleLog[SessionIP].window_start >= 0
        /\ now - throttleLog[SessionIP].window_start > LOCKOUT_DURATION)
       => attempts'[SessionIP].count = 1]_vars

\* C17 amended: the window runs from the latest call that was not answered
\* Locked.  A login arriving more than LOCKOUT_DURATION after it finds the
\* entry expired: it is not answered Locked and, when rejected, starts a
\* fresh count of one; a rejected login arriving within LOCKOUT_DURATION of
\* it, the count below MAX_ATTEMPTS, adds one to the count instead, however
\* long ago the entry was created.
C17_WindowFromLastCounted ==
    [][(/\ last'.op = "login"
        /\ throttleLog[SessionIP].last_counted >= 0)
       => /\ now - throttleLog[SessionIP].last_counted > LOCKOUT_DURATION
             => /\ last'.message.detail # LockedMsg
                /\ ~last'.success => attempts'[SessionIP].count = 1
          /\ (/\ now - throttleLog[SessionIP].last_counted <= LOCKOUT_DURATION
              /\ attempts[SessionIP].count < MAX_ATTEMPTS
              /\ ~last'.success)
             => attempts'[SessionIP].count = attempts[SessionIP].count + 1]_vars

C17_Witness ==
    /\ last.op = "login"
    /\ ~last.success
    /\ throttleLog[SessionIP].window_start = 0
    /\ throttleLog[SessionIP].last_counted = now
    /\ now = 2 * LOCKOUT_DURATION
    /\ attempts[SessionIP].count = 3

\* C18: once deactivate_user(u) has succeeded, no login for u succeeds or
\* mints a token, whatever password it carries, and the attempt is treated as
\* a failure for the client address: its throttle entry is not reset and,
\* unless the address is already locked out, its counter goes up by one.
C18_DeactivatedCannotLogIn ==
    [][(/\ last'.op = "login"
        /\ last'.subject \in deactivated)
       => /\ ~last'.success
          /\ last'.token = NoToken
          /\ issued' = issued
          /\ SessionIP \in DOMAIN attempts'
          /\ FailureCount(SessionIP) < MAX_ATTEMPTS
             => /\ last'.message.detail = "Compte désactivé"
                /\ FailureCount(SessionIP)' = FailureCount(SessionIP) + 1]_vars

C18_Witness ==
    /\ last.op = "login"
    /\ last.subject = ViewerName
    /\ last.password = ViewerPw
    /\ users[ViewerName].password_hash = hash(ViewerPw)
    /\ ViewerName \in deactivated
    /\ last.message.detail = "Compte désactivé"
    /\ attempts[SessionIP].count = 2

\* C19: a login whose payload fails LoginRequest's validation (user name
\* shorter than 3 or longer than 50, password shorter than 6) leaves the
\* credential store, the revocation set and the login-throttle map unchanged.
C19_MalformedLoginTouchesNothing ==
    [][(/\ last'.op = "login"
        /\ ~LoginRequestValid(last'.subject, last'.password))
       => /\ users' = users
          /\ revoked' = revoked
          /\ fillers' = fillers
          /\ attempts' = attempts]_vars

\* C20: a request to /, /api/login or /api/health that carries no bearer
\* token is served by its handler, not answered 401 by auth_middleware.
C20_PublicRoutesNeedNoToken ==
    (last.op \in {"login", "health_check", "serve_index"} /\ last.presented = NoToken)
        => last.message.detail # "401 Unauthorized"

(***************************************************************************)
(* The locks                                                               *)
(***************************************************************************)
Workers == BagToSet(threads)
At(th) == Program(th.op)[th.pc]
Holds(th, lock) == \E g \in th.held : g.lock = lock

\* th waits for a lock that does not let it in, a reader also behind a writer
\* that waits (the RwLock may prefer writers)
Blocked(th) ==
    /\ At(th).do = "acquire"
    /\ \/ ~Available(locks, At(th).lock, At(th).mode)
       \/ /\ At(th).mode = "read"
          /\ \E w \in Workers : /\ At(w).do = "acquire"
                                /\ At(w).lock = At(th).lock
                                /\ At(w).mode = "write"

\* C21: password hashing is never performed while the USERS lock is held: in
\* add_user and change_password no call is at its hash statement with a guard
\* on USERS, so no reader of the store waits for a hash to be computed.
C21_HashOutsideUsersLock ==
    \A th \in Workers :
        (th.op \in {"add_user", "change_password"} /\ At(th).do = "hash")
            => /\ ~Holds(th, "USERS")
               /\ locks["USERS"].writers = 0

\* C22: the REVOKED_TOKENS lock and the LOGIN_ATTEMPTS lock are held only for
\* their own map lookup or update: no call holds either while it verifies a
\* token's signature, hashes or verifies a password, or takes another lock.
C22_RegistryAndThrottleGuardsAreShort ==
    \A th \in Workers :
        (At(th).do \in {"decode", "verify", "hash", "acquire"})
            => /\ ~Holds(th, "REVOKED_TOKENS")
               /\ ~Holds(th, "LOGIN_ATTEMPTS")

\* C28: the workers never deadlock.  While any call is in progress some call
\* can take its next step, even when readers queue behind waiting writers;
\* a call that waits for a lock holds at most REVOKED_TOKENS and then waits for
\* USERS, and a call that holds LOGIN_ATTEMPTS holds nothing else.  Every
\* function is a finite sequence of statements, so each call returns.
C28_NoDeadlock ==
    /\ threads # EmptyBag => \E th \in Workers : ~Blocked(th)
    /\ \A th \in Workers :
          /\ (At(th).do = "acquire" /\ th.held # {})
                => /\ At(th).lock = "USERS"
                   /\ \A g \in th.held : g.lock = "REVOKED_TOKENS"
          /\ Holds(th, "LOGIN_ATTEMPTS")
                => th.held = {[lock |-> "LOGIN_ATTEMPTS", mode |-> "write"]}
    /\ \A l \in LockNames :
          /\ locks[l].writers = Cardinality({th \in Workers : [lock |-> l, mode |-> "write"] \in th.held})
          /\ locks[l].writers <= 1
          /\ locks[l].writers = 1 => locks[l].readers = 0

\* validate_token holds its REVOKED_TOKENS guard and waits for USERS, which
\* add_user holds while it hashes; add_user can go on
C28_Witness ==
    /\ \E th \in Workers : /\ th.op = "validate_token"
                           /\ Holds(th, "REVOKED_TOKENS")
                           /\ Blocked(th)
    /\ \E th \in Workers : /\ th.op = "add_user"
                           /\ At(th).do = "hash"
                           /\ ~Blocked(th)

\* C23: a user once in the credential store is never removed, and keeps its
\* username and its role: a step changes of an existing user only is_active,
\* and then it is deactivate_user that clears it, or the password verifier, and
\* then it is change_password for that user that succeeded.
C23_UsersAreNeverRemoved ==
    [][\A u \in DOMAIN users :
          /\ u \in DOMAIN users'
          /\ users'[u].username = users[u].username
          /\ users'[u].username = u
          /\ users'[u].role = users[u].role
          /\ users'[u].is_active # users[u].is_active
                => /\ last'.op = "deactivate_user"
                   /\ last'.success
                   /\ ~users'[u].is_active
                   /\ users'[u].password_hash = users[u].password_hash
          /\ users'[u].password_hash # users[u].password_hash
                => /\ last'.op = "change_password"
                   /\ last'.success
                   /\ last'.subject = u
                   /\ users'[u].is_active = users[u].is_active]_vars

\* the viewer, deactivated and with a changed password, is still in the store
\* under its name and role, beside a user created since
C23_Witness ==
    /\ users[ViewerName] = [username |-> ViewerName, password_hash |-> hash(BobPw),
                            role |-> RoleViewer, is_active |-> FALSE]
    /\ BobName \in DOMAIN users
    /\ users[AdminName] = SeedUsers[AdminName]

\* C30: deactivation is permanent.  A user whose is_active is false stays in
\* the store with is_active false whatever is called next, a request to create
\* a user of that name is rejected and changes nothing, and no login as that
\* user and no validation of a token naming it succeeds.
C30_DeactivationIsPermanent ==
    [][\A u \in DOMAIN users :
          ~users[u].is_active
             => /\ u \in DOMAIN users'
                /\ ~users'[u].is_active
                /\ (last'.op = "add_user" /\ last'.subject = u)
                      => ~last'.success /\ users' = users
                /\ (last'.op = "login" /\ last'.subject = u)
                      => ~last'.success /\ last'.token = NoToken
                /\ (last'.op = "validate_token" /\ last'.token.sub = u)
                      => ~last'.success]_vars

\* the admin asks to create the deactivated viewer again, after the viewer's
\* password was changed, and is refused
C30_Witness ==
    /\ last.op = "add_user"
    /\ last.subject = ViewerName
    /\ ~last.success
    /\ last.claims.role = RoleAdmin
    /\ ViewerName \in deactivated
    /\ users[ViewerName] = [username |-> ViewerName, password_hash |-> hash(BobPw),
                            role |-> RoleViewer, is_active |-> FALSE]

\* the number of entries of REVOKED_TOKENS
RevokedLen == Cardinality(revoked) + fillers

\* C24: cleanup_revoked_tokens leaves a set of exactly RETAIN_COUNT entries,
\* all of them entries of the set before, when the set held more than
\* RETAIN_COUNT, and leaves the set as it is when it held at most RETAIN_COUNT;
\* it never adds an entry.
C24_CompactionKeepsASubset ==
    [][last'.op = "none"
         => /\ revoked' \subseteq revoked
            /\ fillers' <= fillers
            /\ RevokedLen > RETAIN_COUNT => RevokedLen' = RETAIN_COUNT
            /\ RevokedLen <= RETAIN_COUNT => revoked' = revoked /\ fillers' = fillers]_vars

\* the set held RETAIN_COUNT + 1 entries and the compaction dropped the revoked
\* login token
C24_Witness ==
    /\ last.op = "none"
    /\ RevokedLen = RETAIN_COUNT
    /\ revoked = {}
    /\ everRevoked # {}

\* C29: a login answered Locked leaves LOGIN_ATTEMPTS as it was, the entry of
\* its address with its count and its last_attempt: the count stays at
\* MAX_ATTEMPTS and the time the lockout runs from does not move.
C29_LockedLoginLeavesEntry ==
    [][(last'.op = "login" /\ last'.message.detail = LockedMsg)
         => /\ attempts' = attempts
            /\ SessionIP \in DOMAIN attempts
            /\ attempts'[SessionIP].count = MAX_ATTEMPTS
            /\ attempts'[SessionIP].last_attempt = throttleLog[SessionIP].locked_since
            /\ throttleLog'[SessionIP].locked_since = throttleLog[SessionIP].locked_since]_vars

\* the second login refused in a row, at the last second of the lockout, with
\* the entry still as the fifth failure left it
C29_Witness ==
    /\ last.op = "login"
    /\ last.message.detail = LockedMsg
    /\ throttleLog[SessionIP].refused = 2
    /\ throttleLog[SessionIP].locked_since = 0
    /\ now = LOCKOUT_DURATION
    /\ attempts[SessionIP] = [count |-> MAX_ATTEMPTS, last_attempt |-> 0]

\* C26: a login rejected because its address is locked out and a login
\* rejected for bad credentials receive the same payload: the wrong password
\* sent from a locked address is answered as it is from an address that is not.
C26_LockedLooksLikeBadCredentials ==
    \A ip \in IPs, other \in IPs :
        (/\ ~check_login_attempts(ip, attempts, now).ok
         /\ check_login_attempts(other, attempts, now).ok)
        => login(ip, AdminName, WrongPw, attempts, users, now).response
           = login(other, AdminName, WrongPw, attempts, users, now).response

InstantsNear(t, s, z) ==
    {i \in {t + k * 900 : k \in -8 .. 8} : i >= 0 /\ format(Local(i, z)) = s}

\* C27: every token minted by login expires 24 hours after its iat, and the
\* expires_at of the login response denotes the instant of the token's exp:
\* read in the host's time zone, it is that instant and no other.
C27_FixedLifetimeSameInstant ==
    (last.op = "login" /\ last.success)
        => /\ last.token.exp = last.token.iat + TOKEN_EXPIRY_HOURS * SECONDS_PER_HOUR
           /\ last.claims.exp = last.token.exp
           /\ InstantsNear(last.token.exp, last.expires_at, zone) = {last.token.exp}

\* the seed user u has had its password changed
PasswordChanged(u) ==
    u \in DOMAIN SeedUsers /\ users[u].password_hash # SeedUsers[u].password_hash

\* the password the seed user u started with
OldPassword(u) == SeedUsers[u].password_hash.of

\* C31: a successful change_password leaves the sessions alone: every token
\* that validate_token accepted before the change it accepts after it, and a
\* token of the user, unexpired, not revoked, the user active, validates when
\* presented later.  After the change a login as the user with the old
\* password is rejected, and one that succeeds carries the new password.
C31_PasswordChangeKeepsSessions ==
    [][/\ (last'.op = "change_password" /\ last'.success)
            => /\ \A t \in issued : Valid(t) => Valid(t)'
               /\ revoked' = revoked
               /\ users'[last'.subject].password_hash # users[last'.subject].password_hash
       /\ (/\ last'.op = "validate_token"
           /\ PasswordChanged(last'.token.sub)
           /\ last'.token \in issued
           /\ last'.token \notin revoked
           /\ last'.token.exp >= now
           /\ users[last'.token.sub].is_active)
            => last'.success
       /\ (last'.op = "login" /\ PasswordChanged(last'.subject))
            => /\ last'.password = OldPassword(last'.subject) => ~last'.success
               /\ last'.success => verify(last'.password, users[last'.subject].password_hash)
               /\ (/\ verify(last'.password, users[last'.subject].password_hash)
                   /\ users[last'.subject].is_active
                   /\ CountOf(SessionIP, attempts) < MAX_ATTEMPTS)
                     => last'.success]_vars

\* the viewer's token from before the password change is accepted after it,
\* and the viewer has since been refused with the old password
C31_Witness ==
    /\ last.op = "validate_token"
    /\ last.success
    /\ last.token.sub = ViewerName
    /\ users[ViewerName].password_hash = hash(BobPw)
    /\ users[ViewerName].is_active
    /\ CountOf(SessionIP, attempts) = 1

\* the add_user calls for username that have returned
Returned(username) == {o \in BagToSet(outcomes) : o.arg.username = username}

\* how many of them returned Ok
Successes(username) ==
    LET ok == {o \in Returned(username) : o.ok}
        f[S \in SUBSET ok] ==
            IF S = {} THEN 0
            ELSE LET o == CHOOSE x \in S : TRUE IN CopiesIn(o, outcomes) + f[S \ {o}]
    IN f[ok]

\* C32: of the add_user calls for one new username that run side by side,
\* however their statements interleave, one returns Ok and every other one
\* "L'utilisateur existe déjà", and the record stored under the name is the
\* one the successful call was given.
C32_OneConcurrentAddUserWins ==
    \A username \in {a.username : a \in RegisterCalls} \ DOMAIN SeedUsers :
        Returned(username) # {} =>
            /\ Successes(username) = 1
            /\ \A o \in Returned(username) :
                  IF o.ok
                  THEN /\ username \in DOMAIN users
                       /\ users[username] = User(username, o.arg.password, o.arg.role)
                  ELSE o.err = "L'utilisateur existe déjà"

\* two add_user calls for bob with different records were in progress at the
\* same time: the one with the admin record returned Ok while the other was
\* under way, which was then turned down, and the admin record is stored
C32_Witness ==
    /\ \E o \in Returned(BobName) : o.ok /\ o.arg.role = RoleAdmin /\ BobName \in o.beside
    /\ \E o \in Returned(BobName) : ~o.ok /\ o.arg.role = RoleViewer
    /\ users[BobName].role = RoleAdmin

\* letters, digits and the punctuation of an address
IsAddressChar(c) == IsAlphanumeric(c) \/ c \in {"@", "."}

Chars(s) == {s[i] : i \in 1..Len(s)}

\* C33: what sanitize_input returns holds no '<' and no '>' and neither
\* begins nor ends with a blank, and an input made only of letters, digits,
\* '@' and '.' is returned unchanged.
C33_SanitizeKeepsAddresses ==
    sanitized.called =>
        /\ Chars(sanitized.output) \cap {"<", ">"} = {}
        /\ sanitized.output # <<>> =>
              /\ Head(sanitized.output) # " "
              /\ sanitized.output[Len(sanitized.output)] # " "
        /\ (\A c \in Chars(sanitized.input) : IsAddressChar(c))
              => sanitized.output = sanitized.input

====
